---- MODULE Spec2Model ----
(***************************************************************************)
(* A model of the parse pipeline of backend/services/parse_service.py:     *)
(* the stateful FrameScanner, the schema-driven decoder (_parse_frame,     *)
(* _parse_payload) and stream_to_parquet with its batches, its Parquet     *)
(* writer, the files at data.parquet.tmp and data.parquet, and the job     *)
(* and dataset records it updates.                                         *)
(*                                                                         *)
(* These specifications share the definitions:                             *)
(*   SpecScan     one FrameScanner fed a byte stream in arbitrary chunks;  *)
(*   SpecDecode   _parse_frame applied to one frame and one schema map;    *)
(*   SpecColumns  compute_all_columns applied to one schema list;          *)
(*   Spec         one invocation of stream_to_parquet, step by step;       *)
(*   SpecLive     Spec with the invocation never held up for good;         *)
(*   SpecHex      feed_hex_bytes over the header and lines of a hex text;  *)
(*   SpecRuns     two invocations of stream_to_parquet, interleaved;       *)
(*   SpecSame     two invocations for one dataset, interleaved;            *)
(*   SpecRow      row_from_data applied to one decoded frame;              *)
(*   SpecDelete   one invocation and delete_dataset for its dataset;       *)
(*   SpecStartup  on_startup over the Job rows an earlier process left.    *)
(***************************************************************************)
EXTENDS Integers, Sequences, FiniteSets, TLC

VARIABLES
    raw,            \* the bytes of the raw source (SpecScan: the byte stream)
    pos,            \* how many bytes of raw have been read
    buf,            \* FrameScanner._buf
    inside,         \* FrameScanner._inside
    emitted,        \* the frames the scanner has yielded so far, in order
    frame,          \* SpecDecode: the frame handed to _parse_frame
    schema_map,     \* packet id -> schema
    result,         \* SpecDecode: what _parse_frame produced
    pc,             \* the position of the running function
    pass,           \* which of the two bodies of stream_to_parquet runs
    chunk,          \* the bytes of the current feed() call not yet scanned
                    \* (SpecScan: the bytes of the latest feed() call)
    batch,          \* stream_to_parquet's batch
    packet_num,     \* stream_to_parquet's packet_num
    valid,          \* stream_to_parquet's valid
    writer,         \* stream_to_parquet's writer: NoWriter (None) or a handle
    files,          \* what is at tmp_path ("tmp") and at parquet_path ("final")
    job,            \* the Job row: status, progress and message
                    \* (SpecStartup: the Job table)
    dataset,        \* the Dataset row: parquet_path and packet_count
    exc,            \* the exception the current body is handling, or "none"
    faults,         \* how many faults the environment has injected
    schema_file,    \* the schema source: whether it can be read, and its list
    bus,            \* whether events.publish delivers (else it raises, or
                    \* events is None)
    published,      \* the events delivered to the job's channel, in order
    mark,           \* SpecScan: how many bytes had been fed when flush() ran
                    \* (SpecDelete: the status of delete_dataset's last answer)
    columns         \* SpecColumns: what the calls of compute_all_columns
                    \* returned, in order

scanVars == <<raw, pos, buf, inside, emitted>>
decVars  == <<frame, schema_map, result>>
runVars  == <<pc, pass, chunk, batch, packet_num, valid, writer, files, job,
              dataset, exc, faults>>
auxVars  == <<schema_file, bus, mark, columns>>
vars     == <<raw, pos, buf, inside, emitted, frame, schema_map, result,
              pc, pass, chunk, batch, packet_num, valid, writer, files, job,
              dataset, exc, faults, schema_file, bus, published, mark, columns>>

(***************************************************************************)
(* Bounds of the model.                                                    *)
(***************************************************************************)
\* SpecScan: the longest byte stream fed to the scanner.
MaxScanLen == 5
\* SpecDecode: the longest payload of an enumerated frame.
MaxPayload == 3
\* Spec: the most segments (frames or fragments) a raw source is made of.
MaxFrames == 3
\* Spec: the batch_size argument of stream_to_parquet (default 5000).
BatchSize == 2
\* Spec: the size of the header read (8192 in the source), scaled down.
HeaderBytes == 8
\* Spec: the size of a chunk read (4 MiB in the source), scaled down.
ChunkBytes == 8
\* SpecHex: the most lines of a hex text.
MaxHexLines == 3
\* Spec: the most calls (write_table, set_status) the environment lets fail.
MaxFaults == 1
\* Spec: the most segments of a raw source parsed under a schema source other
\* than the well-formed one, or with an event bus that does not deliver.
MaxFramesOther == 1
\* SpecColumns: the most schemas of a schema list.
MaxSchemas == 3
\* SpecColumns: the most calls of compute_all_columns.
MaxCalls == 2

(***************************************************************************)
(* Constants of the program.                                               *)
(***************************************************************************)
START_FRAME == 1
END_FRAME == 5
\* START 1 + ID 1 + NUM 1 + CHK 2 + END 1
FrameOverhead == 6

None == "None"
\* Python's None where a number is expected: a column of a row that no field
\* populated, a progress that is not given.
Null == -1
\* A schema key that is absent from the schema's dict.
Absent == -1

(***************************************************************************)
(* Sequences of bytes.                                                     *)
(***************************************************************************)
\* The sequences over S of length at most n.
SeqsUpTo(S, n) == UNION {[1 .. k -> S] : k \in 0 .. n}

RECURSIVE SumSeq(_)
SumSeq(s) == IF s = <<>> THEN 0 ELSE Head(s) + SumSeq(Tail(s))

RECURSIVE Concat(_)
Concat(ss) == IF ss = <<>> THEN <<>> ELSE Head(ss) \o Concat(Tail(ss))

Last(s) == s[Len(s)]

Min(a, b) == IF a <= b THEN a ELSE b

\* Python's s[i:j] for 0 <= i, on a sequence indexed from 1.
Slice(s, i, j) == SubSeq(s, i + 1, Min(j, Len(s)))

(***************************************************************************)
(* FrameScanner.  A scanner is [buf, inside]; feed() handles the bytes one *)
(* at a time.                                                              *)
(***************************************************************************)
NewScanner == [buf |-> <<>>, inside |-> FALSE]

\* A scanner that goes on accumulating when START arrives inside a frame.
FeedByteAccumulates(s, b) ==
    IF ~s.inside
    THEN IF b = START_FRAME
         THEN [buf |-> <<b>>, inside |-> TRUE, out |-> <<>>]
         ELSE [buf |-> s.buf, inside |-> FALSE, out |-> <<>>]
    ELSE IF b = END_FRAME
         THEN [buf |-> <<>>, inside |-> FALSE, out |-> <<Append(s.buf, b)>>]
         ELSE [buf |-> Append(s.buf, b), inside |-> TRUE, out |-> <<>>]

\* A scanner that yields the buffer as it was before the END byte.
FeedByteDropsEnd(s, b) ==
    IF ~s.inside
    THEN IF b = START_FRAME
         THEN [buf |-> <<b>>, inside |-> TRUE, out |-> <<>>]
         ELSE [buf |-> s.buf, inside |-> FALSE, out |-> <<>>]
    ELSE IF b = END_FRAME
         THEN [buf |-> <<>>, inside |-> FALSE, out |-> <<s.buf>>]
         ELSE IF b = START_FRAME
              THEN [buf |-> <<b>>, inside |-> TRUE, out |-> <<>>]
              ELSE [buf |-> Append(s.buf, b), inside |-> TRUE, out |-> <<>>]

\* One turn of the loop of feed(): the scanner after byte b, and the frame
\* yielded at b, if any (out is <<>> or <<frame>>).
FeedByte(s, b) ==
    IF ~s.inside
    THEN IF b = START_FRAME
         THEN [buf |-> <<b>>, inside |-> TRUE, out |-> <<>>]
         ELSE [buf |-> s.buf, inside |-> FALSE, out |-> <<>>]
    ELSE IF b = END_FRAME
         THEN [buf |-> <<>>, inside |-> FALSE, out |-> <<Append(s.buf, b)>>]
         ELSE IF b = START_FRAME
              THEN [buf |-> <<b>>, inside |-> TRUE, out |-> <<>>]
              ELSE [buf |-> Append(s.buf, b), inside |-> TRUE, out |-> <<>>]

RECURSIVE FeedFrom(_, _, _)
FeedFrom(s, data, frames) ==
    IF data = <<>>
    THEN [buf |-> s.buf, inside |-> s.inside, frames |-> frames]
    ELSE LET r == FeedByte(s, Head(data))
         IN  FeedFrom([buf |-> r.buf, inside |-> r.inside], Tail(data), frames \o r.out)

\* A feed() that starts every call with a fresh buffer.
FeedForgetful(s, data) == FeedFrom(NewScanner, data, <<>>)

\* feed(data) run to its end: the scanner afterwards and the frames yielded.
Feed(s, data) == FeedFrom(s, data, <<>>)

\* feed(data) run to its next yield: the frame yielded (yielded = TRUE) and
\* the bytes still to scan, or the end of the data (yielded = FALSE).  The
\* scanner is the one the generator leaves when it is resumed after the yield.
RECURSIVE ScanNext(_, _)
ScanNext(s, data) ==
    IF data = <<>>
    THEN [buf |-> s.buf, inside |-> s.inside, yielded |-> FALSE, frame |-> <<>>,
          rest |-> <<>>]
    ELSE LET After(r) ==
                 IF r.out # <<>>
                 THEN [buf |-> r.buf, inside |-> r.inside, yielded |-> TRUE,
                       frame |-> r.out[1], rest |-> Tail(data)]
                 ELSE ScanNext([buf |-> r.buf, inside |-> r.inside], Tail(data))
         IN  CHOOSE n \in {After(r) : r \in {FeedByte(s, Head(data))}} : TRUE

\* A flush() that leaves the scanner as it is.
FlushKeepsPartial(s) == [buf |-> s.buf, inside |-> s.inside]

\* A flush() that clears the buffer and leaves the flag as it is.
FlushLeavesInside(s) == [buf |-> <<>>, inside |-> s.inside]

\* flush()
Flush(s) == [buf |-> <<>>, inside |-> FALSE]

(***************************************************************************)
(* The decoder.  A schema is [id, num_bytes, length, fields, all_fields];   *)
(* a field is [name, size, bits]; bits = <<>> stands for a field without   *)
(* "bits", all_fields = <<>> for a schema without "all_fields".            *)
(* Decoded data is a function from names to integers.                      *)
(***************************************************************************)
EmptyData == <<>>

Put(d, k, v) == [x \in (DOMAIN d) \cup {k} |-> IF x = k THEN v ELSE d[x]]

RECURSIVE Pow2(_)
Pow2(n) == IF n = 0 THEN 1 ELSE 2 * Pow2(n - 1)

\* _to_int_be: n = (n << 8) | x over the bytes.
RECURSIVE ToIntFrom(_, _)
ToIntFrom(n, b) == IF b = <<>> THEN n ELSE ToIntFrom(n * 256 + Head(b), Tail(b))

\* The bytes read with the first byte least significant.
RECURSIVE ToIntLittleEndian(_)
ToIntLittleEndian(b) ==
    IF b = <<>> THEN 0 ELSE Head(b) + 256 * ToIntLittleEndian(Tail(b))

_to_int_be(b) == ToIntFrom(0, b)

\* _expand_bits with msb_first = False: out[name_i] = (byte_val >> i) & 1.
RECURSIVE ExpandFrom(_, _, _, _)
ExpandFrom(byte_val, bit_names, i, out) ==
    IF i > Len(bit_names) THEN out
    ELSE ExpandFrom(byte_val, bit_names, i + 1,
                    Put(out, bit_names[i], (byte_val \div Pow2(i - 1)) % 2))

\* The bits taken from the most significant one: (byte_val >> (7 - i)) & 1.
RECURSIVE ExpandMsbFrom(_, _, _, _)
ExpandMsbFrom(byte_val, bit_names, i, out) ==
    IF i > Len(bit_names) THEN out
    ELSE ExpandMsbFrom(byte_val, bit_names, i + 1,
                       Put(out, bit_names[i], (byte_val \div Pow2(7 - (i - 1))) % 2))

ExpandBitsMsbFirst(byte_val, bit_names, out) == ExpandMsbFrom(byte_val, bit_names, 1, out)

_expand_bits(byte_val, bit_names, out) == ExpandFrom(byte_val, bit_names, 1, out)

\* The loop of _parse_payload from field k on, at offset idx.
RECURSIVE ParseFields(_, _, _, _, _)
ParseFields(payload, fields, k, idx, out) ==
    IF k > Len(fields) THEN [raised |-> FALSE, out |-> out]
    ELSE LET fld == fields[k]
             size == fld.size
         IN  IF idx + size > Len(payload)
             THEN [raised |-> TRUE, out |-> out]
             ELSE LET part == Slice(payload, idx, idx + size)
                      o1 == IF size = 1
                            THEN _expand_bits(part[1], fld.bits, Put(out, fld.name, part[1]))
                            ELSE Put(out, fld.name, _to_int_be(part))
                  IN  ParseFields(payload, fields, k + 1, idx + size, o1)

\* _parse_payload: the decoded fields, or raised (ValueError: payload too short).
_parse_payload(payload, schema) == ParseFields(payload, schema.fields, 1, 0, EmptyData)

Rejected(data) == [ok |-> FALSE, raised |-> FALSE, data |-> data]

\* A decoder that takes "length" for the length of the payload.
ParseWithSchemaPayloadLength(f, schema) ==
    LET pkt_id == f[2]
        num_bytes == f[3]
        idOnly == Put(EmptyData, "ID", pkt_id)
        payload_len == Len(f) - 1 - 1 - 1 - 2 - 1
        payload == Slice(f, 3, 3 + payload_len)
        p == _parse_payload(payload, schema)
        expected_len == IF schema.length = Absent THEN 0 ELSE schema.length
    IN  IF expected_len # 0 /\ expected_len # payload_len
        THEN Rejected(idOnly)
        ELSE IF schema.num_bytes # Absent /\ num_bytes # schema.num_bytes
        THEN Rejected(idOnly)
        ELSE IF payload_len < 0 THEN Rejected(idOnly)
        ELSE IF p.raised
        THEN [ok |-> FALSE, raised |-> TRUE, data |-> EmptyData]
        ELSE [ok |-> TRUE, raised |-> FALSE, data |-> Put(p.out, "ID", pkt_id)]

\* _parse_frame from the schema found on: the length and numbytes tests, the
\* payload, its fields and the ID.  A schema without "length" or "num_bytes"
\* has Absent there; schema.get("length", 0) makes 0 of an absent length.
\* raised: _parse_payload raised.
ParseWithSchema(f, schema) ==
    LET pkt_id == f[2]
        num_bytes == f[3]
        idOnly == Put(EmptyData, "ID", pkt_id)
        expected_len == IF schema.length = Absent THEN 0 ELSE schema.length
        payload_len == Len(f) - 1 - 1 - 1 - 2 - 1
        payload == Slice(f, 3, 3 + payload_len)
        p == _parse_payload(payload, schema)
    IN  IF expected_len # 0 /\ expected_len # Len(f)
        THEN Rejected(idOnly)
        ELSE IF schema.num_bytes # Absent /\ num_bytes # schema.num_bytes
        THEN Rejected(idOnly)
        ELSE IF payload_len < 0 THEN Rejected(idOnly)
        ELSE IF p.raised
        THEN [ok |-> FALSE, raised |-> TRUE, data |-> EmptyData]
        ELSE [ok |-> TRUE, raised |-> FALSE, data |-> Put(p.out, "ID", pkt_id)]

\* A decoder without the "if not schema" test: a frame of an unknown ID is
\* taken as a record that holds its ID alone.
ParseFrameUnknownAccepted(f, smap) ==
    IF Len(f) < FrameOverhead THEN Rejected(EmptyData)
    ELSE IF f[1] # START_FRAME \/ Last(f) # END_FRAME THEN Rejected(EmptyData)
    ELSE IF f[2] \notin DOMAIN smap
         THEN [ok |-> TRUE, raised |-> FALSE, data |-> Put(EmptyData, "ID", f[2])]
         ELSE ParseWithSchema(f, smap[f[2]])

\* _parse_frame: (ok, data), or raised when _parse_payload raises.
_parse_frame(f, smap) ==
    IF Len(f) < FrameOverhead THEN Rejected(EmptyData)
    ELSE IF f[1] # START_FRAME \/ Last(f) # END_FRAME THEN Rejected(EmptyData)
    ELSE IF f[2] \notin DOMAIN smap
         THEN Rejected(Put(EmptyData, "ID", f[2]))
         ELSE ParseWithSchema(f, smap[f[2]])

(***************************************************************************)
(* The schema file.  stream_to_parquet builds schema_map from its list.    *)
(***************************************************************************)
Field(name, size, bits) == [name |-> name, size |-> size, bits |-> bits]

Schema(id, num_bytes, length, fields, all_fields) ==
    [id |-> id, num_bytes |-> num_bytes, length |-> length, fields |-> fields,
     all_fields |-> all_fields]

\* A one-byte field X; a frame of it is 7 bytes long.
SchemaA == Schema(2, 3, 7, <<Field("X", 1, <<>>)>>, <<>>)
\* A schema whose declared length leaves no room for its field.
SchemaB == Schema(4, 2, 6, <<Field("Y", 1, <<>>)>>, <<>>)
\* The schema of the end-to-end scenario: ID = 1, num_bytes = 1, field X.
SchemaE == Schema(1, 1, 7, <<Field("X", 1, <<>>)>>, <<>>)
\* A flag byte and a two-byte field.
SchemaW == Schema(3, 2, 9, <<Field("F", 1, <<"f0", "f1">>), Field("W", 2, <<>>)>>, <<>>)
\* SchemaA with neither "length" nor "num_bytes".
SchemaA_NoLength == Schema(2, Absent, Absent, <<Field("X", 1, <<>>)>>, <<>>)
\* SchemaA with "length": 0.
SchemaA_Length0 == Schema(2, 3, 0, <<Field("X", 1, <<>>)>>, <<>>)
\* A second definition of the ID of SchemaA, with another field.
SchemaA_Again == Schema(2, 3, 7, <<Field("Y", 1, <<>>)>>, <<>>)
\* A definition without "id".
SchemaNoId == Schema(Absent, 3, 7, <<Field("X", 1, <<>>)>>, <<>>)

SchemaFile == <<SchemaA, SchemaB, SchemaE, SchemaW>>

\* {int(s["id"]): s for s in schemas}: a later schema replaces an earlier one
\* of the same id.
SchemaMap(schemas) ==
    [i \in {schemas[k].id : k \in DOMAIN schemas} |->
        schemas[CHOOSE k \in DOMAIN schemas :
                    /\ schemas[k].id = i
                    /\ \A j \in DOMAIN schemas : schemas[j].id = i => j <= k]]

RECURSIVE SumSizes(_)
SumSizes(fields) == IF fields = <<>> THEN 0 ELSE Head(fields).size + SumSizes(Tail(fields))

(***************************************************************************)
(* Frames as the spec builds them:                                         *)
(* start | id | numbytes | payload | checksum (2, big-endian) | end.       *)
(***************************************************************************)
Checksum(payload, num_bytes) == (SumSeq(payload) + num_bytes) % (256 * 256)

BuildFrame(start, id, num_bytes, payload, chk, end) ==
    <<start, id, num_bytes>> \o payload \o <<chk \div 256, chk % 256, end>>

PayloadOf(f) == SubSeq(f, 4, Len(f) - 3)

ChecksumField(f) == f[Len(f) - 2] * 256 + f[Len(f) - 1]

\* The frame has the markers and a schema, and its length and numbytes are the
\* schema's.
MatchesSchema(f, smap) ==
    /\ Len(f) >= FrameOverhead
    /\ f[1] = START_FRAME
    /\ Last(f) = END_FRAME
    /\ f[2] \in DOMAIN smap
    /\ smap[f[2]].length = Len(f)
    /\ smap[f[2]].num_bytes = f[3]

ChecksumOk(f) == ChecksumField(f) = Checksum(PayloadOf(f), f[3])

(***************************************************************************)
(* The variables a specification does not use keep these values.           *)
(***************************************************************************)
NoFile == [rows |-> <<>>, closed |-> FALSE, by |-> -1]

IdleScan == /\ raw = <<>>  /\ pos = 0  /\ buf = <<>>  /\ inside = FALSE
            /\ emitted = <<>>

IdleDecode == frame = <<>> /\ result = Rejected(EmptyData)

NoWriter == [path |-> "none", closed |-> FALSE]

\* The Job row as the upload leaves it.
NewJob == [status |-> "pending", progress |-> 0, message |-> "queued"]

NoSchemaFile == [readable |-> FALSE, schemas |-> <<>>]

IdleRun == /\ pass = 0  /\ chunk = <<>>  /\ batch = <<>>  /\ packet_num = 0
           /\ valid = 0  /\ writer = NoWriter
           /\ files = [tmp |-> NoFile, final |-> NoFile]
           /\ job = NewJob
           /\ dataset = [parquet_path |-> None, packet_count |-> 0]
           /\ exc = "none"  /\ faults = 0
           /\ bus = FALSE  /\ published = <<>>

IdleColumns == columns = <<>>

(***************************************************************************)
(* SpecScan: one FrameScanner, fed a byte stream in chunks of any sizes    *)
(* (empty ones too) and flushed, at the end of the stream or before it;    *)
(* after a flush() before the end the same scanner is fed the rest.        *)
(***************************************************************************)
ScanBytes == {START_FRAME, END_FRAME, 2}

InitScan ==
    /\ raw \in SeqsUpTo(ScanBytes, MaxScanLen)
    /\ pos = 0  /\ buf = <<>>  /\ inside = FALSE  /\ emitted = <<>>
    /\ pc = "feeding"
    /\ mark = 0
    /\ schema_map = <<>>
    /\ schema_file = NoSchemaFile
    /\ IdleDecode
    /\ IdleRun
    /\ IdleColumns

\* scanner.feed(data) on the next k bytes, consumed to its end.
FeedChunk ==
    /\ pc \in {"feeding", "reused"}
    /\ \E k \in 0 .. (Len(raw) - pos) :
         LET data == SubSeq(raw, pos + 1, pos + k)
             r == Feed([buf |-> buf, inside |-> inside], data)
         IN  /\ buf' = r.buf
             /\ inside' = r.inside
             /\ emitted' = emitted \o r.frames
             /\ pos' = pos + k
             /\ chunk' = data
    /\ UNCHANGED <<raw, pc, decVars, pass, batch, packet_num, valid, writer,
                   files, job, dataset, exc, faults, auxVars, published>>

\* scanner.flush(): at the end of the stream, or before it, and then the
\* scanner is used again for the bytes that follow.
FlushScanner ==
    /\ pc = "feeding"
    /\ buf' = Flush([buf |-> buf, inside |-> inside]).buf
    /\ inside' = Flush([buf |-> buf, inside |-> inside]).inside
    /\ mark' = pos
    /\ pc' = IF pos = Len(raw) THEN "flushed" ELSE "reused"
    /\ UNCHANGED <<raw, pos, emitted, decVars, pass, chunk, batch, packet_num,
                   valid, writer, files, job, dataset, exc, faults, schema_file,
                   bus, published, columns>>

NextScan == FeedChunk \/ FlushScanner

SpecScan == InitScan /\ [][NextScan]_vars

(***************************************************************************)
(* SpecDecode: _parse_frame on one frame under one schema map.             *)
(***************************************************************************)
DecodePayloadBytes == {0, 1, 255}

DecodePayloads == SeqsUpTo(DecodePayloadBytes, MaxPayload)

\* The checksum fields tried with a payload: the right one, and the right one
\* of every payload that differs from it in one byte (a byte of
\* DecodePayloadBytes changed to another moves the sum by 1, 254 or 255).
ChecksumsTried(payload, num_bytes) ==
    {(Checksum(payload, num_bytes) + d) % (256 * 256) :
        d \in {0, 1, -1, 254, -254, 255, -255}}

DecodeFrames ==
    UNION {{BuildFrame(s, i, n, p, c, e) :
                s \in {START_FRAME, 2}, i \in {2, 3, 4, 9},
                c \in ChecksumsTried(p, n), e \in {END_FRAME, 2}} :
           p \in DecodePayloads, n \in {2, 3}}

\* Frames of every shape, and byte strings too short to be a frame.
DecodeInputs == DecodeFrames \cup SeqsUpTo(ScanBytes, FrameOverhead - 1)

\* The registries tried: the whole schema file, SchemaA alone, and SchemaA
\* without "length" and "num_bytes" or with "length": 0.
DecodeRegistries ==
    {SchemaMap(SchemaFile), SchemaMap(<<SchemaA>>), SchemaMap(<<SchemaA_NoLength>>),
     SchemaMap(<<SchemaA_Length0>>)}

InitDecode ==
    /\ frame \in DecodeInputs
    /\ schema_map \in DecodeRegistries
    /\ result = Rejected(EmptyData)
    /\ pc = "decode"
    /\ mark = 0
    /\ schema_file = NoSchemaFile
    /\ IdleScan
    /\ IdleRun
    /\ IdleColumns

DecodeFrame ==
    /\ pc = "decode"
    /\ result' = _parse_frame(frame, schema_map)
    /\ pc' = "decoded"
    /\ UNCHANGED <<frame, schema_map, scanVars, pass, chunk, batch, packet_num,
                   valid, writer, files, job, dataset, exc, faults, auxVars,
                   published>>

NextDecode == DecodeFrame

SpecDecode == InitDecode /\ [][NextDecode]_vars

(***************************************************************************)
(* compute_all_columns.  A name is a string; sorted() orders strings by    *)
(* their code points, a proper prefix before the longer string.            *)
(***************************************************************************)
Range(f) == {f[i] : i \in DOMAIN f}

\* The code points of the names that occur in the schemas of the model.
Codepoints(name) ==
    CASE name = "PacketNum" -> <<80, 97, 99, 107, 101, 116, 78, 117, 109>>
      [] name = "ID" -> <<73, 68>>
      [] name = "F" -> <<70>>
      [] name = "W" -> <<87>>
      [] name = "X" -> <<88>>
      [] name = "Y" -> <<89>>
      [] name = "Z" -> <<90>>
      [] name = "f" -> <<102>>
      [] name = "f0" -> <<102, 48>>
      [] name = "f1" -> <<102, 49>>

\* a < b for two sequences of code points.
RECURSIVE LexLess(_, _)
LexLess(a, b) ==
    IF b = <<>> THEN FALSE
    ELSE IF a = <<>> THEN TRUE
    ELSE IF Head(a) = Head(b) THEN LexLess(Tail(a), Tail(b))
    ELSE Head(a) < Head(b)

\* Python's m < n for strings.
StrLess(m, n) == LexLess(Codepoints(m), Codepoints(n))

\* sorted(names) for a set of strings.
RECURSIVE sorted(_)
sorted(names) ==
    IF names = {} THEN <<>>
    ELSE LET least == CHOOSE m \in names : \A o \in names \ {m} : StrLess(m, o)
         IN  <<least>> \o sorted(names \ {least})

FieldsOf(schemas) ==
    UNION {{schemas[k].fields[j] : j \in DOMAIN schemas[k].fields} : k \in DOMAIN schemas}

\* A collection of the columns that passes over "all_fields".
ColumnSetWithoutAllFields(schemas) ==
    {"PacketNum", "ID"}
        \cup {fld.name : fld \in FieldsOf(schemas)}
        \cup UNION {Range(fld.bits) : fld \in FieldsOf(schemas)}

\* The set cols that compute_all_columns collects, before it orders it.
ColumnSet(schemas) ==
    {"PacketNum", "ID"}
        \cup UNION {Range(schemas[k].all_fields) : k \in DOMAIN schemas}
        \cup {fld.name : fld \in FieldsOf(schemas)}
        \cup UNION {Range(fld.bits) : fld \in FieldsOf(schemas)}

\* compute_all_columns: PacketNum, ID, then the other names in order.
compute_all_columns(schemas) ==
    <<"PacketNum", "ID">> \o sorted(ColumnSet(schemas) \ {"PacketNum", "ID"})

(***************************************************************************)
(* SpecColumns: compute_all_columns called, more than once, on one schema  *)
(* list.                                                                   *)
(***************************************************************************)
\* Two fields in the order Y, X, and "all_fields" with names of its own.
SchemaP == Schema(5, 2, 8, <<Field("Y", 1, <<>>), Field("X", 1, <<>>)>>,
                  <<"Z", "f", "X", "ID">>)

ColumnSchemas == {SchemaA, SchemaB, SchemaW, SchemaP}

InitColumns ==
    /\ schema_file \in {[readable |-> TRUE, schemas |-> ss] :
                            ss \in SeqsUpTo(ColumnSchemas, MaxSchemas)}
    /\ columns = <<>>
    /\ pc = "columns"
    /\ mark = 0
    /\ schema_map = <<>>
    /\ IdleScan
    /\ IdleDecode
    /\ IdleRun

ComputeColumns ==
    /\ pc = "columns"
    /\ Len(columns) < MaxCalls
    /\ columns' = Append(columns, compute_all_columns(schema_file.schemas))
    /\ UNCHANGED <<scanVars, decVars, runVars, schema_file, bus, published, mark>>

NextColumns == ComputeColumns

SpecColumns == InitColumns /\ [][NextColumns]_vars

(***************************************************************************)
(* Notifications.  set_status writes the Job row and then publishes a      *)
(* status event; append_log publishes a log event; _publish swallows what  *)
(* events.publish raises.  A progress is kept in hundredths of a percent;  *)
(* Null stands for progress=None.                                          *)
(***************************************************************************)
Percent(p) == p * 100

\* An event as a subscriber sees it; during is the status of the Job row when
\* it was published (for a status event, the status it reports).
StatusEvent(status, progress, message) ==
    [type |-> "status", during |-> status, progress |-> progress, message |-> message]

LogEvent(during, progress, message) ==
    [type |-> "log", during |-> during, progress |-> progress, message |-> message]

\* _publish: the event is delivered, or the failure is swallowed.
_publish(log, delivers, event) == IF delivers THEN Append(log, event) ELSE log

\* A set_status that writes progress and message and leaves the status.
SetStatusKeepsStatus(j, status, progress, message) ==
    [status |-> j.status,
     progress |-> IF progress = Null THEN j.progress ELSE progress,
     message |-> message]

\* The Job row after set_status: progress=None leaves j.progress as it is.
set_status(j, status, progress, message) ==
    [status |-> status,
     progress |-> IF progress = Null THEN j.progress ELSE progress,
     message |-> message]

\* round(bytes_read * 100.0 / file_size, 2): the nearest hundredth, a tie
\* going to the even one.
Ratio(bytes_read, file_size) ==
    LET n == Percent(100) * bytes_read
        q == n \div file_size
        r == n % file_size
    IN  IF 2 * r < file_size THEN q
        ELSE IF 2 * r > file_size THEN q + 1
        ELSE IF q % 2 = 0 THEN q ELSE q + 1

\* A checkpoint that reports the ratio as it is.
PctUncapped(bytes_read, file_size) ==
    IF file_size = 0 THEN Null ELSE Ratio(bytes_read, file_size)

\* pct = None; if file_size: pct = min(90.0, round(bytes_read * 100.0 / file_size, 2))
Pct(bytes_read, file_size) ==
    IF file_size = 0 THEN Null ELSE Min(Percent(90), Ratio(bytes_read, file_size))

(***************************************************************************)
(* Spec: one invocation of stream_to_parquet(job_id, dataset_id, raw_path, *)
(* schema_file, batch_size).  The function holds two bodies, one after the *)
(* other: the first (pass = 1) writes data.parquet.tmp and renames it, the *)
(* second (pass = 2) starts over and writes data.parquet itself.           *)
(***************************************************************************)
\* row_from_data: every column None, then PacketNum, ID and the decoded keys
\* that are columns.
row_from_data(cols, num, data) ==
    [c \in cols |-> IF c \in DOMAIN data THEN data[c]
                    ELSE IF c = "PacketNum" THEN num
                    ELSE Null]

\* A loop body that counts the packet before it looks at ok.
PacketNumCountsEveryFrame(num, ok) == num + 1

\* "if not ok: continue" then "packet_num += 1".
NextPacketNum(num, ok) == IF ok THEN num + 1 ELSE num

\* The path a body hands to ParquetWriter.
WriterPath(p) == IF p = 1 THEN "tmp" ELSE "final"

\* A flush that goes on with an empty batch.
FlushesEmptyBatch(b) == TRUE

\* A final flush that never finds rows to write.
SkipsPartialBatch(b) == FALSE

\* flush_batch's "if not batch: return" and the final "if batch:".
HasRows(b) == b # <<>>

\* _looks_like_hex_text: a non-empty sample of hex digits and whitespace only.
HexTextBytes == (48 .. 57) \cup (97 .. 102) \cup (65 .. 70) \cup {32, 9, 13, 10}

_looks_like_hex_text(sample) ==
    /\ sample # <<>>
    /\ \A i \in 1 .. Min(4096, Len(sample)) : sample[i] \in HexTextBytes /\ sample[i] # 0

\* Segments a raw source is made of.
SegGood0 == BuildFrame(START_FRAME, 2, 3, <<0>>, Checksum(<<0>>, 3), END_FRAME)
SegGood7 == BuildFrame(START_FRAME, 2, 3, <<7>>, Checksum(<<7>>, 3), END_FRAME)
SegBadSum == BuildFrame(START_FRAME, 2, 3, <<7>>, Checksum(<<7>>, 3) + 1, END_FRAME)
SegUnknown == BuildFrame(START_FRAME, 9, 3, <<0>>, Checksum(<<0>>, 3), END_FRAME)
SegShort == BuildFrame(START_FRAME, 4, 2, <<>>, Checksum(<<>>, 2), END_FRAME)
SegE2E == BuildFrame(START_FRAME, 1, 1, <<2>>, Checksum(<<2>>, 1), END_FRAME)
SegPartial == <<START_FRAME, 2, 3>>

Segments == {SegGood0, SegGood7, SegBadSum, SegUnknown, SegShort, SegE2E, SegPartial}

RawSources == {Concat(ss) : ss \in SeqsUpTo(Segments, MaxFrames)}

\* The schema sources: the well-formed file; a file that cannot be opened or
\* is not JSON; two definitions of one ID; a definition without "id"; a
\* definition without "length" and "num_bytes".
StdSchemaFile == [readable |-> TRUE, schemas |-> SchemaFile]
UnreadableSchemaFile == [readable |-> FALSE, schemas |-> <<>>]
DuplicateIdSchemaFile == [readable |-> TRUE, schemas |-> <<SchemaA, SchemaA_Again>>]
NoIdSchemaFile == [readable |-> TRUE, schemas |-> <<SchemaNoId>>]
NoLengthSchemaFile == [readable |-> TRUE, schemas |-> <<SchemaA_NoLength>>]

SchemaSources ==
    {StdSchemaFile, UnreadableSchemaFile, DuplicateIdSchemaFile, NoIdSchemaFile,
     NoLengthSchemaFile}

\* The raw sources parsed under a schema source and an event bus: all of them
\* with the well-formed schema file and a bus that delivers, the short ones
\* otherwise.
RawSourcesFor(source, delivers) ==
    IF source = StdSchemaFile /\ delivers THEN RawSources
    ELSE {Concat(ss) : ss \in SeqsUpTo(Segments, MaxFramesOther)}

\* A file left at data.parquet by an earlier run.
OldFile == [rows |-> <<>>, closed |-> TRUE, by |-> 0]

Init ==
    /\ schema_file \in SchemaSources
    /\ bus \in BOOLEAN
    /\ raw \in RawSourcesFor(schema_file, bus)
    /\ published = <<>>
    /\ pos = 0  /\ buf = <<>>  /\ inside = FALSE  /\ emitted = <<>>
    /\ schema_map = <<>>
    /\ IdleDecode
    /\ IdleColumns
    /\ mark = 0
    /\ pc = "start"
    /\ pass = 1
    /\ chunk = <<>>  /\ batch = <<>>  /\ packet_num = 0  /\ valid = 0
    /\ writer = NoWriter
    /\ files \in {[tmp |-> NoFile, final |-> NoFile], [tmp |-> NoFile, final |-> OldFile]}
    /\ job = NewJob
    /\ dataset = [parquet_path |-> None, packet_count |-> 0]
    /\ exc = "none"  /\ faults = 0

ScanPcs == {"scan_header", "scan_chunk"}

\* set_status(job_id, JobStatus.running, progress=0.0, message="starting"),
\* then append_log(job_id, "Parsing started", ...); set_status may raise.
Start ==
    /\ pc = "start"
    /\ \/ /\ job' = set_status(job, "running", Percent(0), "starting")
          /\ published' =
                _publish(_publish(published, bus,
                                  StatusEvent("running", Percent(0), "starting")),
                         bus, LogEvent("running", Percent(0), "starting"))
          /\ pc' = "load_schema"
          /\ UNCHANGED <<exc, faults>>
       \/ /\ faults < MaxFaults
          /\ faults' = faults + 1
          /\ exc' = "DBError"
          /\ pc' = "except"
          /\ UNCHANGED <<job, published>>
    /\ UNCHANGED <<scanVars, decVars, pass, chunk, batch, packet_num, valid, writer,
                   files, dataset, auxVars>>

\* json.load(open(schema_file)) and int(s["id"]) raise for a file that cannot
\* be read and for a definition without "id"; else the schema map, a new
\* scanner, packet_num = 0, valid = 0, batch = [] (and writer = None).
LoadSchema ==
    /\ pc = "load_schema"
    /\ IF ~schema_file.readable
       THEN /\ exc' = "OSError"
            /\ pc' = "except"
            /\ UNCHANGED <<schema_map, buf, inside, emitted, packet_num, valid,
                           batch, writer, pos>>
       ELSE IF \E k \in DOMAIN schema_file.schemas : schema_file.schemas[k].id = Absent
       THEN /\ exc' = "KeyError"
            /\ pc' = "except"
            /\ UNCHANGED <<schema_map, buf, inside, emitted, packet_num, valid,
                           batch, writer, pos>>
       ELSE /\ schema_map' = SchemaMap(schema_file.schemas)
            /\ buf' = NewScanner.buf
            /\ inside' = NewScanner.inside
            /\ emitted' = <<>>
            /\ packet_num' = 0
            /\ valid' = 0
            /\ batch' = <<>>
            /\ writer' = NoWriter
            /\ pos' = 0
            /\ pc' = "open_raw"
            /\ UNCHANGED exc
    /\ UNCHANGED <<raw, frame, result, pass, chunk, files, job, dataset,
                   faults, auxVars, published>>

\* header = f.read(8192); binary mode feeds the header to the scanner.
OpenRaw ==
    /\ pc = "open_raw"
    /\ LET header == SubSeq(raw, 1, Min(HeaderBytes, Len(raw)))
       IN  /\ pos' = Len(header)
           /\ chunk' = header
           /\ pc' = IF _looks_like_hex_text(header) THEN "hex" ELSE "scan_header"
    /\ UNCHANGED <<raw, buf, inside, emitted, decVars, pass, batch, packet_num,
                   valid, writer, files, job, dataset, exc, faults, auxVars,
                   published>>

\* A write_table that writes the rows twice.
WrittenTwice(w, fs, p, rows) ==
    LET path == IF w.path = "none" THEN WriterPath(p) ELSE w.path
        opened == IF w.path = "none"
                  THEN [fs EXCEPT ![path] = [rows |-> <<>>, closed |-> FALSE, by |-> p]]
                  ELSE fs
    IN  [writer |-> [path |-> path, closed |-> FALSE],
         opened |-> opened,
         files |-> [opened EXCEPT ![path].rows = @ \o rows \o rows]]

\* ParquetWriter(path, ...) when writer is None, then write_table(table).
Written(w, fs, p, rows) ==
    LET path == IF w.path = "none" THEN WriterPath(p) ELSE w.path
        opened == IF w.path = "none"
                  THEN [fs EXCEPT ![path] = [rows |-> <<>>, closed |-> FALSE, by |-> p]]
                  ELSE fs
    IN  [writer |-> [path |-> path, closed |-> FALSE],
         opened |-> opened,
         files |-> [opened EXCEPT ![path].rows = @ \o rows]]

\* One turn of "for frame in scanner.feed(...)": the frame is decoded and, when
\* ok, numbered, appended to the batch and counted; a full batch is flushed.
\* A frame that is not ok is logged.
HandleFrame ==
    /\ pc \in ScanPcs
    /\ \E n \in {ScanNext([buf |-> buf, inside |-> inside], chunk)} :
       \E r \in {_parse_frame(n.frame, schema_map)} :
       LET num == NextPacketNum(packet_num, r.ok)
           b1 == Append(batch, row_from_data(ColumnSet(schema_file.schemas), num, r.data))
           w == Written(writer, files, pass, b1)
       IN  /\ n.yielded
           /\ emitted' = Append(emitted, n.frame)
           /\ packet_num' = num
           /\ \/ /\ r.raised
                 /\ exc' = "ValueError"
                 /\ pc' = "except"
                 /\ buf' = n.frame
                 /\ inside' = TRUE
                 /\ UNCHANGED <<chunk, batch, valid, writer, files, faults, published>>
              \/ /\ ~r.raised
                 /\ ~r.ok
                 /\ buf' = n.buf
                 /\ inside' = n.inside
                 /\ chunk' = n.rest
                 /\ published' = _publish(published, bus, LogEvent(job.status, Null, "none"))
                 /\ UNCHANGED <<pc, batch, valid, writer, files, exc, faults>>
              \/ /\ r.ok
                 /\ Len(b1) < BatchSize
                 /\ buf' = n.buf
                 /\ inside' = n.inside
                 /\ chunk' = n.rest
                 /\ batch' = b1
                 /\ valid' = valid + 1
                 /\ UNCHANGED <<pc, writer, files, exc, faults, published>>
              \/ /\ r.ok
                 /\ Len(b1) >= BatchSize
                 /\ buf' = n.buf
                 /\ inside' = n.inside
                 /\ chunk' = n.rest
                 /\ batch' = <<>>
                 /\ valid' = valid + 1
                 /\ writer' = w.writer
                 /\ files' = w.files
                 /\ UNCHANGED <<pc, exc, faults, published>>
              \/ /\ r.ok
                 /\ Len(b1) >= BatchSize
                 /\ faults < MaxFaults
                 /\ buf' = n.frame
                 /\ inside' = TRUE
                 /\ batch' = b1
                 /\ valid' = valid + 1
                 /\ writer' = w.writer
                 /\ files' = w.opened
                 /\ faults' = faults + 1
                 /\ exc' = "IOError"
                 /\ pc' = "except"
                 /\ UNCHANGED <<chunk, published>>
    /\ UNCHANGED <<raw, pos, decVars, pass, job, dataset, auxVars>>

\* The feed() of the current bytes yields no more frames; after a chunk,
\* set_status(job_id, JobStatus.running, progress=pct, message="parsing"),
\* which may raise.
ChunkDone ==
    /\ pc \in ScanPcs
    /\ LET n == ScanNext([buf |-> buf, inside |-> inside], chunk)
       IN  /\ ~n.yielded
           /\ buf' = n.buf
           /\ inside' = n.inside
    /\ chunk' = <<>>
    /\ LET pct == Pct(pos, Len(raw))
       IN  \/ /\ pc = "scan_header"
              /\ pc' = "read_chunk"
              /\ UNCHANGED <<job, published, exc, faults>>
           \/ /\ pc = "scan_chunk"
              /\ job' = set_status(job, "running", pct, "parsing")
              /\ published' = _publish(published, bus, StatusEvent("running", pct, "parsing"))
              /\ pc' = "read_chunk"
              /\ UNCHANGED <<exc, faults>>
           \/ /\ pc = "scan_chunk"
              /\ faults < MaxFaults
              /\ faults' = faults + 1
              /\ exc' = "DBError"
              /\ pc' = "except"
              /\ UNCHANGED <<job, published>>
    /\ UNCHANGED <<raw, pos, emitted, decVars, pass, batch, packet_num, valid,
                   writer, files, dataset, auxVars>>

\* chunk = f.read(4 * 1024 * 1024); at the end of the file, scanner.flush().
ReadChunk ==
    /\ pc = "read_chunk"
    /\ LET data == SubSeq(raw, pos + 1, Min(pos + ChunkBytes, Len(raw)))
       IN  IF data = <<>>
           THEN /\ buf' = Flush([buf |-> buf, inside |-> inside]).buf
                /\ inside' = Flush([buf |-> buf, inside |-> inside]).inside
                /\ pc' = "final_flush"
                /\ UNCHANGED <<pos, chunk>>
           ELSE /\ pos' = pos + Len(data)
                /\ chunk' = data
                /\ pc' = "scan_chunk"
                /\ UNCHANGED <<buf, inside>>
    /\ UNCHANGED <<raw, emitted, decVars, pass, batch, packet_num, valid, writer,
                   files, job, dataset, exc, faults, auxVars, published>>

\* "if batch:" the rows left are written, through a writer opened now if none
\* is open.
FinalFlush ==
    /\ pc = "final_flush"
    /\ LET w == Written(writer, files, pass, batch)
       IN  \/ /\ ~HasRows(batch)
              /\ pc' = "close"
              /\ UNCHANGED <<batch, writer, files, exc, faults>>
           \/ /\ HasRows(batch)
              /\ writer' = w.writer
              /\ files' = w.files
              /\ batch' = <<>>
              /\ pc' = "close"
              /\ UNCHANGED <<exc, faults>>
           \/ /\ HasRows(batch)
              /\ faults < MaxFaults
              /\ writer' = w.writer
              /\ files' = w.opened
              /\ faults' = faults + 1
              /\ exc' = "IOError"
              /\ pc' = "except"
              /\ UNCHANGED batch
    /\ UNCHANGED <<scanVars, decVars, pass, chunk, packet_num, valid, job, dataset,
                   auxVars, published>>

\* "if writer:" writer.close(), and in the first body
\* os.replace(tmp_path, parquet_path).
CloseWriter ==
    /\ pc = "close"
    /\ IF writer.path = "none"
       THEN UNCHANGED <<writer, files>>
       ELSE LET closed == [files EXCEPT ![writer.path].closed = TRUE]
            IN  /\ writer' = [writer EXCEPT !.closed = TRUE]
                /\ files' = IF pass = 1
                            THEN [tmp |-> NoFile, final |-> closed.tmp]
                            ELSE closed
    /\ pc' = "update_meta"
    /\ UNCHANGED <<scanVars, decVars, pass, chunk, batch, packet_num, valid, job,
                   dataset, exc, faults, auxVars, published>>

\* d.parquet_path = parquet_path; d.packet_count = valid
UpdateMeta ==
    /\ pc = "update_meta"
    /\ dataset' = [parquet_path |-> "final", packet_count |-> valid]
    /\ pc' = "finish"
    /\ UNCHANGED <<scanVars, decVars, pass, chunk, batch, packet_num, valid, writer,
                   files, job, exc, faults, auxVars, published>>

\* append_log(job_id, "Completed: ...", progress=95.0, message="parsed"), then
\* set_status(job_id, JobStatus.success, progress=100.0, message="completed"),
\* which may raise.
Finish ==
    /\ pc = "finish"
    /\ LET logged == _publish(published, bus, LogEvent(job.status, Percent(95), "parsed"))
       IN  \/ /\ job' = set_status(job, "success", Percent(100), "completed")
              /\ published' = _publish(logged, bus,
                                       StatusEvent("success", Percent(100), "completed"))
              /\ pc' = "finally"
              /\ UNCHANGED <<exc, faults>>
           \/ /\ faults < MaxFaults
              /\ faults' = faults + 1
              /\ published' = logged
              /\ exc' = "DBError"
              /\ pc' = "except"
              /\ UNCHANGED job
    /\ UNCHANGED <<scanVars, decVars, pass, chunk, batch, packet_num, valid, writer,
                   files, dataset, auxVars>>

\* "except Exception as e": append_log(..., progress=100.0, message="failed")
\* and set_status(failed, progress=100.0, message=str(e)); the first body then
\* closes the writer and removes tmp_path, the second does neither.  When
\* set_status raises here, the exception leaves stream_to_parquet.
Except ==
    /\ pc = "except"
    /\ LET logged == _publish(published, bus, LogEvent(job.status, Percent(100), "failed"))
       IN  \/ /\ job' = set_status(job, "failed", Percent(100), exc)
              /\ published' = _publish(logged, bus,
                                       StatusEvent("failed", Percent(100), exc))
              /\ IF pass = 1
                 THEN /\ writer' = IF writer.path = "none" THEN writer
                                   ELSE [writer EXCEPT !.closed = TRUE]
                      /\ files' = [files EXCEPT !.tmp = NoFile]
                 ELSE UNCHANGED <<writer, files>>
              /\ pc' = "finally"
              /\ UNCHANGED <<exc, faults>>
           \/ /\ faults < MaxFaults
              /\ faults' = faults + 1
              /\ published' = logged
              /\ exc' = "DBError"
              /\ pc' = "raised"
              /\ UNCHANGED <<job, writer, files>>
    /\ UNCHANGED <<scanVars, decVars, pass, chunk, batch, packet_num, valid, dataset,
                   auxVars>>

\* "finally: db.close()"; after the first body the second one starts.
Finally ==
    /\ pc = "finally"
    /\ IF pass = 1
       THEN /\ pass' = 2
            /\ exc' = "none"
            /\ pc' = "start"
       ELSE /\ pc' = "returned"
            /\ UNCHANGED <<pass, exc>>
    /\ UNCHANGED <<scanVars, decVars, chunk, batch, packet_num, valid, writer, files,
                   job, dataset, faults, auxVars, published>>

Next ==
    \/ Start
    \/ LoadSchema
    \/ OpenRaw
    \/ HandleFrame
    \/ ChunkDone
    \/ ReadChunk
    \/ FinalFlush
    \/ CloseWriter
    \/ UpdateMeta
    \/ Finish
    \/ Except
    \/ Finally

Spec == Init /\ [][Next]_vars

\* The invocation runs in a thread or a worker of its own that is not held
\* up: a step that can be taken is taken.
SpecLive == Init /\ [][Next]_vars /\ WF_vars(Next)

(***************************************************************************)
(* SpecHex: hex mode.  The raw source is text, lines of hex tokens; the    *)
(* header (f.read(8192)) and then every line of the file ("for line in f") *)
(* go through feed_hex_bytes, which turns each line into bytes and feeds   *)
(* them to the run's FrameScanner.  A character is its code point; the     *)
(* frames feed_hex_bytes yields are collected in emitted.                  *)
(***************************************************************************)
NL == 10
SP == 32

\* What bytes.strip() and bytes.split() take for whitespace.
Whitespace == {32, 9, 10, 13, 11, 12}

\* The value of a hex digit, -1 for any other character.
HexDigitValue(c) ==
    IF c \in 48 .. 57 THEN c - 48
    ELSE IF c \in 97 .. 102 THEN c - 87
    ELSE IF c \in 65 .. 70 THEN c - 55
    ELSE -1

\* Where the first line of a text ends: the index of its first \n or \r,
\* 0 when it has none.
LineEnd(text) ==
    LET ends == {i \in 1 .. Len(text) : text[i] \in {10, 13}}
    IN  IF ends = {} THEN 0 ELSE CHOOSE e \in ends : \A o \in ends : e <= o

FirstLine(text) ==
    IF LineEnd(text) = 0 THEN text ELSE SubSeq(text, 1, LineEnd(text) - 1)

\* The text after the first line and its end (\n, \r or \r\n).
AfterFirstLine(text) ==
    LET e == LineEnd(text)
        n == IF text[e] = 13 /\ e < Len(text) /\ text[e + 1] = 10 THEN 2 ELSE 1
    IN  IF e = 0 THEN <<>> ELSE SubSeq(text, e + n, Len(text))

\* bytes.splitlines(): the lines without their ends; no empty line after a
\* final line end.
RECURSIVE splitlines(_)
splitlines(text) ==
    IF text = <<>> THEN <<>>
    ELSE <<FirstLine(text)>> \o splitlines(AfterFirstLine(text))

\* line.strip()
RECURSIVE strip(_)
strip(s) ==
    IF s = <<>> THEN s
    ELSE IF Head(s) \in Whitespace THEN strip(Tail(s))
    ELSE IF Last(s) \in Whitespace THEN strip(SubSeq(s, 1, Len(s) - 1))
    ELSE s

\* s.split(): the runs of characters that are not whitespace.
RECURSIVE split(_)
split(s) ==
    IF s = <<>> THEN <<>>
    ELSE IF Head(s) \in Whitespace THEN split(Tail(s))
    ELSE LET gaps == {i \in 1 .. Len(s) : s[i] \in Whitespace}
             n == IF gaps = {} THEN Len(s)
                  ELSE (CHOOSE g \in gaps : \A o \in gaps : g <= o) - 1
         IN  <<SubSeq(s, 1, n)>> \o split(SubSeq(s, n + 1, Len(s)))

\* int(t, 16) for a token of digits: n = n * 16 + digit.
RECURSIVE IntBase16(_, _)
IntBase16(n, t) ==
    IF t = <<>> THEN n ELSE IntBase16(n * 16 + HexDigitValue(Head(t)), Tail(t))

\* int(t, 16) raises ValueError.
IntRaises(t) == \E i \in 1 .. Len(t) : HexDigitValue(t[i]) = -1

\* The try block of feed_hex_bytes on a stripped line: data, or raised when
\* int(t, 16) raises or bytes() is given a value outside range(0, 256).
HexLineData(s) ==
    LET tokens == split(s)
    IN  IF \E k \in 1 .. Len(tokens) :
               IntRaises(tokens[k]) \/ IntBase16(0, tokens[k]) > 255
        THEN [raised |-> TRUE, data |-> <<>>]
        ELSE [raised |-> FALSE,
              data |-> [k \in 1 .. Len(tokens) |-> IntBase16(0, tokens[k])]]

\* append_log(job_id, "Malformed hex line (ignored)")
MalformedWarning == [type |-> "log", log |-> "Malformed hex line (ignored)"]

\* A loop body that feeds each token's byte as it converts it: the bytes
\* before the token that fails reach the scanner.
HexLineTokenwise(sc, line) ==
    LET tokens == split(strip(line))
        bad == {k \in 1 .. Len(tokens) :
                    IntRaises(tokens[k]) \/ IntBase16(0, tokens[k]) > 255}
        n == IF bad = {} THEN Len(tokens)
             ELSE (CHOOSE b \in bad : \A o \in bad : b <= o) - 1
        r == Feed(sc, [k \in 1 .. n |-> IntBase16(0, tokens[k])])
    IN  [buf |-> r.buf, inside |-> r.inside, frames |-> r.frames,
         warned |-> bad # {}]

\* One turn of the loop of feed_hex_bytes: the scanner after the line, the
\* frames yielded from it, and whether the warning was logged.
HexLine(sc, line) ==
    LET s == strip(line)
        d == HexLineData(s)
        r == Feed(sc, d.data)
    IN  IF s = <<>>
        THEN [buf |-> sc.buf, inside |-> sc.inside, frames |-> <<>>, warned |-> FALSE]
        ELSE IF d.raised
        THEN [buf |-> sc.buf, inside |-> sc.inside, frames |-> <<>>, warned |-> TRUE]
        ELSE [buf |-> r.buf, inside |-> r.inside, frames |-> r.frames,
              warned |-> FALSE]

\* Texts of lines: "1", "5", "1 5", " 15 1", "111", "1 g", "g 5" and "".
HexLineTexts ==
    {<<49>>, <<53>>, <<49, SP, 53>>, <<SP, 49, 53, SP, 49>>, <<49, 49, 49>>,
     <<49, SP, 103>>, <<103, SP, 53>>, <<>>}

\* The hex texts: up to MaxHexLines lines, the last one with or without its
\* line end, that _looks_like_hex_text takes for hex text.
HexSources ==
    LET whole == {Concat([k \in DOMAIN ls |-> ls[k] \o <<NL>>]) :
                      ls \in SeqsUpTo(HexLineTexts, MaxHexLines)}
        cut == {SubSeq(t, 1, Len(t) - 1) : t \in whole \ {<<>>}}
    IN  {t \in whole \cup cut :
             _looks_like_hex_text(SubSeq(t, 1, Min(HeaderBytes, Len(t))))}

InitHex ==
    /\ raw \in HexSources
    /\ pos = 0  /\ buf = <<>>  /\ inside = FALSE  /\ emitted = <<>>
    /\ pc = "hex_open"
    /\ chunk = <<>>
    /\ bus \in BOOLEAN
    /\ published = <<>>
    /\ pass = 0  /\ batch = <<>>  /\ packet_num = 0  /\ valid = 0
    /\ writer = NoWriter
    /\ files = [tmp |-> NoFile, final |-> NoFile]
    /\ job = NewJob
    /\ dataset = [parquet_path |-> None, packet_count |-> 0]
    /\ exc = "none"  /\ faults = 0
    /\ mark = 0
    /\ schema_map = <<>>
    /\ schema_file = NoSchemaFile
    /\ IdleDecode
    /\ IdleColumns

HexPcs == {"hex_header", "hex_lines"}

\* header = f.read(8192); "for frame in feed_hex_bytes(header)" begins.
OpenHex ==
    /\ pc = "hex_open"
    /\ chunk' = SubSeq(raw, 1, Min(HeaderBytes, Len(raw)))
    /\ pos' = Min(HeaderBytes, Len(raw))
    /\ pc' = "hex_header"
    /\ UNCHANGED <<raw, buf, inside, emitted, decVars, pass, batch, packet_num,
                   valid, writer, files, job, dataset, exc, faults, auxVars,
                   published>>

\* feed_hex_bytes handles the next line of its chunk.
FeedHexLine ==
    /\ pc \in HexPcs
    /\ chunk # <<>>
    /\ LET r == HexLine([buf |-> buf, inside |-> inside], FirstLine(chunk))
       IN  /\ buf' = r.buf
           /\ inside' = r.inside
           /\ emitted' = emitted \o r.frames
           /\ published' = IF r.warned
                           THEN _publish(published, bus, MalformedWarning)
                           ELSE published
    /\ chunk' = AfterFirstLine(chunk)
    /\ UNCHANGED <<raw, pos, pc, decVars, pass, batch, packet_num, valid, writer,
                   files, job, dataset, exc, faults, auxVars>>

\* The line "for line in f" hands out at pos: the bytes up to the next \n,
\* the \n included.
FileLine(text, p) ==
    LET ends == {i \in (p + 1) .. Len(text) : text[i] = NL}
    IN  IF ends = {} THEN SubSeq(text, p + 1, Len(text))
        ELSE SubSeq(text, p + 1, CHOOSE e \in ends : \A o \in ends : e <= o)

\* "for line in f": the next line of the file, handed to feed_hex_bytes.
ReadLine ==
    /\ pc \in HexPcs
    /\ chunk = <<>>
    /\ pos < Len(raw)
    /\ chunk' = FileLine(raw, pos)
    /\ pos' = pos + Len(FileLine(raw, pos))
    /\ pc' = "hex_lines"
    /\ UNCHANGED <<raw, buf, inside, emitted, decVars, pass, batch, packet_num,
                   valid, writer, files, job, dataset, exc, faults, auxVars,
                   published>>

\* "for line in f" ends with the file.
HexEnd ==
    /\ pc \in HexPcs
    /\ chunk = <<>>
    /\ pos = Len(raw)
    /\ pc' = "hex_done"
    /\ UNCHANGED <<scanVars, decVars, pass, chunk, batch, packet_num, valid,
                   writer, files, job, dataset, exc, faults, auxVars, published>>

NextHex == OpenHex \/ FeedHexLine \/ ReadLine \/ HexEnd

SpecHex == InitHex /\ [][NextHex]_vars

(***************************************************************************)
(* SpecRuns: two invocations of stream_to_parquet, started by              *)
(* _start_parse_async for two uploads, each in a thread or a worker of its *)
(* own, their steps interleaved in any order.  Here every variable of an   *)
(* invocation is a function: pc, pass, pos, chunk, emitted and exc of the  *)
(* run; buf, inside, schema_map, batch, packet_num, valid and writer of    *)
(* the run's locals; raw and files of the directory; job of the job id and *)
(* dataset of the dataset id.  No fault is injected and events is None.    *)
(***************************************************************************)
Runs == {1, 2}

\* upload_dataset: dataset_id = str(uuid.uuid4()), an id of its own for every
\* upload; the job id, another uuid4, is the run itself.
DatasetOf(r) == r

\* All locals in one place, as module-level objects would be.
LocalsShared(r) == 1

\* scanner, batch, writer, packet_num, valid and schema_map are locals of the
\* invocation: every call of stream_to_parquet has its own.
LocalsOf(r) == r

\* root = os.path.join(DATA_ROOT, dataset_id) holds the raw file, and
\* out_dir = os.path.dirname(raw_path) the two Parquet paths.
out_dir(r) == DatasetOf(r)

\* The raw sources of the runs: BatchSize + 1 good frames; a good frame, one
\* with a bad checksum and a good one; a frame too short for its schema after
\* BatchSize good ones; a partial frame.
RunSources ==
    {Concat([k \in 1 .. BatchSize + 1 |-> IF k % 2 = 1 THEN SegGood0 ELSE SegGood7]),
     SegGood7 \o SegBadSum \o SegGood0,
     Concat([k \in 1 .. BatchSize |-> SegGood7]) \o SegShort,
     SegPartial}

InitRuns ==
    /\ raw \in [Runs -> RunSources]
    /\ pc = [r \in Runs |-> "start"]
    /\ pass = [r \in Runs |-> 1]
    /\ pos = [r \in Runs |-> 0]
    /\ chunk = [r \in Runs |-> <<>>]
    /\ emitted = [r \in Runs |-> <<>>]
    /\ exc = [r \in Runs |-> "none"]
    /\ buf = [l \in Runs |-> <<>>]
    /\ inside = [l \in Runs |-> FALSE]
    /\ schema_map = [l \in Runs |-> <<>>]
    /\ batch = [l \in Runs |-> <<>>]
    /\ packet_num = [l \in Runs |-> 0]
    /\ valid = [l \in Runs |-> 0]
    /\ writer = [l \in Runs |-> NoWriter]
    /\ files = [d \in Runs |-> [tmp |-> NoFile, final |-> NoFile]]
    /\ job = [j \in Runs |-> NewJob]
    /\ dataset = [d \in Runs |-> [parquet_path |-> None, packet_count |-> 0]]
    /\ schema_file = StdSchemaFile
    /\ bus = FALSE  /\ published = <<>>
    /\ faults = 0  /\ mark = 0
    /\ frame = <<>>  /\ result = Rejected(EmptyData)
    /\ IdleColumns

\* What no step of SpecRuns changes.
runsFixed == <<raw, frame, result, schema_file, bus, published, faults, mark, columns>>

\* set_status(job_id, JobStatus.running, progress=0.0, message="starting")
RunStart(r) ==
    /\ pc[r] = "start"
    /\ job' = [job EXCEPT ![r] = set_status(@, "running", Percent(0), "starting")]
    /\ pc' = [pc EXCEPT ![r] = "load_schema"]
    /\ UNCHANGED <<pos, buf, inside, emitted, schema_map, pass, chunk, batch,
                   packet_num, valid, writer, files, dataset, exc, runsFixed>>

\* The schema map, a new scanner, packet_num = 0, valid = 0, batch = [] and
\* writer = None.
RunLoadSchema(r) ==
    /\ pc[r] = "load_schema"
    /\ schema_map' = [schema_map EXCEPT ![LocalsOf(r)] = SchemaMap(schema_file.schemas)]
    /\ buf' = [buf EXCEPT ![LocalsOf(r)] = NewScanner.buf]
    /\ inside' = [inside EXCEPT ![LocalsOf(r)] = NewScanner.inside]
    /\ packet_num' = [packet_num EXCEPT ![LocalsOf(r)] = 0]
    /\ valid' = [valid EXCEPT ![LocalsOf(r)] = 0]
    /\ batch' = [batch EXCEPT ![LocalsOf(r)] = <<>>]
    /\ writer' = [writer EXCEPT ![LocalsOf(r)] = NoWriter]
    /\ emitted' = [emitted EXCEPT ![r] = <<>>]
    /\ pos' = [pos EXCEPT ![r] = 0]
    /\ pc' = [pc EXCEPT ![r] = "open_raw"]
    /\ UNCHANGED <<pass, chunk, files, job, dataset, exc, runsFixed>>

\* header = f.read(8192) of the run's raw file.
RunOpenRaw(r) ==
    /\ pc[r] = "open_raw"
    /\ LET header == SubSeq(raw[r], 1, Min(HeaderBytes, Len(raw[r])))
       IN  /\ pos' = [pos EXCEPT ![r] = Len(header)]
           /\ chunk' = [chunk EXCEPT ![r] = header]
    /\ pc' = [pc EXCEPT ![r] = "scan_header"]
    /\ UNCHANGED <<buf, inside, emitted, schema_map, pass, batch, packet_num,
                   valid, writer, files, job, dataset, exc, runsFixed>>

\* One turn of "for frame in scanner.feed(...)" of run r.
RunHandleFrame(r) ==
    /\ pc[r] \in ScanPcs
    /\ \E n \in {ScanNext([buf |-> buf[LocalsOf(r)], inside |-> inside[LocalsOf(r)]],
                          chunk[r])} :
       \E d \in {_parse_frame(n.frame, schema_map[LocalsOf(r)])} :
       LET l == LocalsOf(r)
           num == NextPacketNum(packet_num[l], d.ok)
           b1 == Append(batch[l], row_from_data(ColumnSet(schema_file.schemas), num, d.data))
           w == Written(writer[l], files[out_dir(r)], pass[r], b1)
       IN  /\ n.yielded
           /\ emitted' = [emitted EXCEPT ![r] = Append(@, n.frame)]
           /\ packet_num' = [packet_num EXCEPT ![l] = num]
           /\ \/ /\ d.raised
                 /\ exc' = [exc EXCEPT ![r] = "ValueError"]
                 /\ pc' = [pc EXCEPT ![r] = "except"]
                 /\ buf' = [buf EXCEPT ![l] = n.frame]
                 /\ inside' = [inside EXCEPT ![l] = TRUE]
                 /\ UNCHANGED <<chunk, batch, valid, writer, files>>
              \/ /\ ~d.raised
                 /\ ~d.ok
                 /\ buf' = [buf EXCEPT ![l] = n.buf]
                 /\ inside' = [inside EXCEPT ![l] = n.inside]
                 /\ chunk' = [chunk EXCEPT ![r] = n.rest]
                 /\ UNCHANGED <<pc, batch, valid, writer, files, exc>>
              \/ /\ d.ok
                 /\ Len(b1) < BatchSize
                 /\ buf' = [buf EXCEPT ![l] = n.buf]
                 /\ inside' = [inside EXCEPT ![l] = n.inside]
                 /\ chunk' = [chunk EXCEPT ![r] = n.rest]
                 /\ batch' = [batch EXCEPT ![l] = b1]
                 /\ valid' = [valid EXCEPT ![l] = @ + 1]
                 /\ UNCHANGED <<pc, writer, files, exc>>
              \/ /\ d.ok
                 /\ Len(b1) >= BatchSize
                 /\ buf' = [buf EXCEPT ![l] = n.buf]
                 /\ inside' = [inside EXCEPT ![l] = n.inside]
                 /\ chunk' = [chunk EXCEPT ![r] = n.rest]
                 /\ batch' = [batch EXCEPT ![l] = <<>>]
                 /\ valid' = [valid EXCEPT ![l] = @ + 1]
                 /\ writer' = [writer EXCEPT ![l] = w.writer]
                 /\ files' = [files EXCEPT ![out_dir(r)] = w.files]
                 /\ UNCHANGED <<pc, exc>>
    /\ UNCHANGED <<pos, schema_map, pass, job, dataset, runsFixed>>

\* The feed() of run r yields no more frames; after a chunk,
\* set_status(job_id, JobStatus.running, progress=pct, message="parsing").
RunChunkDone(r) ==
    /\ pc[r] \in ScanPcs
    /\ \E n \in {ScanNext([buf |-> buf[LocalsOf(r)], inside |-> inside[LocalsOf(r)]],
                          chunk[r])} :
           /\ ~n.yielded
           /\ buf' = [buf EXCEPT ![LocalsOf(r)] = n.buf]
           /\ inside' = [inside EXCEPT ![LocalsOf(r)] = n.inside]
    /\ chunk' = [chunk EXCEPT ![r] = <<>>]
    /\ job' = IF pc[r] = "scan_chunk"
              THEN [job EXCEPT ![r] = set_status(@, "running",
                                                 Pct(pos[r], Len(raw[r])), "parsing")]
              ELSE job
    /\ pc' = [pc EXCEPT ![r] = "read_chunk"]
    /\ UNCHANGED <<pos, emitted, schema_map, pass, batch, packet_num, valid,
                   writer, files, dataset, exc, runsFixed>>

\* chunk = f.read(4 * 1024 * 1024); at the end of the file, scanner.flush().
RunReadChunk(r) ==
    /\ pc[r] = "read_chunk"
    /\ LET l == LocalsOf(r)
           data == SubSeq(raw[r], pos[r] + 1, Min(pos[r] + ChunkBytes, Len(raw[r])))
           flushed == Flush([buf |-> buf[l], inside |-> inside[l]])
       IN  IF data = <<>>
           THEN /\ buf' = [buf EXCEPT ![l] = flushed.buf]
                /\ inside' = [inside EXCEPT ![l] = flushed.inside]
                /\ pc' = [pc EXCEPT ![r] = "final_flush"]
                /\ UNCHANGED <<pos, chunk>>
           ELSE /\ pos' = [pos EXCEPT ![r] = @ + Len(data)]
                /\ chunk' = [chunk EXCEPT ![r] = data]
                /\ pc' = [pc EXCEPT ![r] = "scan_chunk"]
                /\ UNCHANGED <<buf, inside>>
    /\ UNCHANGED <<emitted, schema_map, pass, batch, packet_num, valid, writer,
                   files, job, dataset, exc, runsFixed>>

\* "if batch:" the rows left are written.
RunFinalFlush(r) ==
    /\ pc[r] = "final_flush"
    /\ LET l == LocalsOf(r)
           w == Written(writer[l], files[out_dir(r)], pass[r], batch[l])
       IN  IF HasRows(batch[l])
           THEN /\ writer' = [writer EXCEPT ![l] = w.writer]
                /\ files' = [files EXCEPT ![out_dir(r)] = w.files]
                /\ batch' = [batch EXCEPT ![l] = <<>>]
           ELSE UNCHANGED <<writer, files, batch>>
    /\ pc' = [pc EXCEPT ![r] = "close"]
    /\ UNCHANGED <<pos, buf, inside, emitted, schema_map, pass, chunk, packet_num,
                   valid, job, dataset, exc, runsFixed>>

\* "if writer:" writer.close(), and in the first body
\* os.replace(tmp_path, parquet_path).
RunClose(r) ==
    /\ pc[r] = "close"
    /\ LET l == LocalsOf(r)
           fs == files[out_dir(r)]
           closed == [fs EXCEPT ![writer[l].path].closed = TRUE]
       IN  IF writer[l].path = "none"
           THEN UNCHANGED <<writer, files>>
           ELSE /\ writer' = [writer EXCEPT ![l].closed = TRUE]
                /\ files' = [files EXCEPT ![out_dir(r)] =
                                IF pass[r] = 1
                                THEN [tmp |-> NoFile, final |-> closed.tmp]
                                ELSE closed]
    /\ pc' = [pc EXCEPT ![r] = "update_meta"]
    /\ UNCHANGED <<pos, buf, inside, emitted, schema_map, pass, chunk, batch,
                   packet_num, valid, job, dataset, exc, runsFixed>>

\* d.parquet_path = parquet_path; d.packet_count = valid
RunUpdateMeta(r) ==
    /\ pc[r] = "update_meta"
    /\ dataset' = [dataset EXCEPT ![DatasetOf(r)] =
                      [parquet_path |-> "final", packet_count |-> valid[LocalsOf(r)]]]
    /\ pc' = [pc EXCEPT ![r] = "finish"]
    /\ UNCHANGED <<pos, buf, inside, emitted, schema_map, pass, chunk, batch,
                   packet_num, valid, writer, files, job, exc, runsFixed>>

\* set_status(job_id, JobStatus.success, progress=100.0, message="completed")
RunFinish(r) ==
    /\ pc[r] = "finish"
    /\ job' = [job EXCEPT ![r] = set_status(@, "success", Percent(100), "completed")]
    /\ pc' = [pc EXCEPT ![r] = "finally"]
    /\ UNCHANGED <<pos, buf, inside, emitted, schema_map, pass, chunk, batch,
                   packet_num, valid, writer, files, dataset, exc, runsFixed>>

\* "except Exception as e": set_status(failed, progress=100.0, message=str(e));
\* the first body then closes the writer and removes tmp_path.
RunExcept(r) ==
    /\ pc[r] = "except"
    /\ job' = [job EXCEPT ![r] = set_status(@, "failed", Percent(100), exc[r])]
    /\ IF pass[r] = 1
       THEN /\ writer' = [writer EXCEPT ![LocalsOf(r)] =
                             IF @.path = "none" THEN @ ELSE [@ EXCEPT !.closed = TRUE]]
            /\ files' = [files EXCEPT ![out_dir(r)].tmp = NoFile]
       ELSE UNCHANGED <<writer, files>>
    /\ pc' = [pc EXCEPT ![r] = "finally"]
    /\ UNCHANGED <<pos, buf, inside, emitted, schema_map, pass, chunk, batch,
                   packet_num, valid, dataset, exc, runsFixed>>

\* "finally: db.close()"; after the first body the second one starts.
RunFinally(r) ==
    /\ pc[r] = "finally"
    /\ IF pass[r] = 1
       THEN /\ pass' = [pass EXCEPT ![r] = 2]
            /\ exc' = [exc EXCEPT ![r] = "none"]
            /\ pc' = [pc EXCEPT ![r] = "start"]
       ELSE /\ pc' = [pc EXCEPT ![r] = "returned"]
            /\ UNCHANGED <<pass, exc>>
    /\ UNCHANGED <<pos, buf, inside, emitted, schema_map, chunk, batch, packet_num,
                   valid, writer, files, job, dataset, runsFixed>>

NextRuns ==
    \E r \in Runs :
        \/ RunStart(r)
        \/ RunLoadSchema(r)
        \/ RunOpenRaw(r)
        \/ RunHandleFrame(r)
        \/ RunChunkDone(r)
        \/ RunReadChunk(r)
        \/ RunFinalFlush(r)
        \/ RunClose(r)
        \/ RunUpdateMeta(r)
        \/ RunFinish(r)
        \/ RunExcept(r)
        \/ RunFinally(r)

SpecRuns == InitRuns /\ [][NextRuns]_vars

(***************************************************************************)
(* SpecSame: two invocations of stream_to_parquet for one dataset, the     *)
(* second started by POST /datasets/{id}/parse while the first runs.  Both *)
(* read the one raw file and both use data.parquet.tmp and data.parquet of *)
(* the one directory, TheDataset.  A file is an inode, named in "by" after *)
(* the writer that created it: opening a path that exists truncates the    *)
(* file that is there, a writer writes at its own offset into the file it  *)
(* opened wherever os.replace has moved it, and into nothing once that     *)
(* file is unlinked (POSIX).  An offset is counted in rows.                *)
(***************************************************************************)
TheDataset == 1

\* open(path, "wb"): a new file, 10 * r + p for run r in body p, or the file
\* that is there, truncated.
Opened(fs, path, r, p) ==
    [fs EXCEPT ![path] = [rows |-> <<>>, closed |-> FALSE,
                          by |-> IF fs[path] = NoFile THEN 10 * r + p ELSE fs[path].by]]

\* The path the file ino is at, "none" when it is unlinked.
PathOfInode(fs, ino) ==
    IF fs.tmp.by = ino THEN "tmp" ELSE IF fs.final.by = ino THEN "final" ELSE "none"

\* rows written into file f at offset o; a read finds [ID |-> Null] where
\* nothing was written, and a footer that lay before the end of the rows is
\* written over.
WrittenAt(f, o, rows) ==
    LET n == IF Len(f.rows) >= o + Len(rows) THEN Len(f.rows) ELSE o + Len(rows)
    IN  [f EXCEPT !.rows = [k \in 1 .. n |->
                               IF k > o /\ k <= o + Len(rows) THEN rows[k - o]
                               ELSE IF k <= Len(f.rows) THEN f.rows[k]
                               ELSE [ID |-> Null]],
                  !.closed = f.closed /\ o + Len(rows) <= Len(f.rows)]

\* ParquetWriter(path, ...) when writer is None, then write_table(table) at
\* the writer's offset o.
SameWritten(w, fs, r, p, o, rows) ==
    LET opened == IF w.path = "none" THEN Opened(fs, WriterPath(p), r, p) ELSE fs
        ino == IF w.path = "none" THEN opened[WriterPath(p)].by ELSE w.ino
        at == PathOfInode(opened, ino)
    IN  [writer |-> [path |-> WriterPath(p), closed |-> FALSE, ino |-> ino],
         files |-> IF at = "none" THEN opened
                   ELSE [opened EXCEPT ![at] = WrittenAt(@, o, rows)]]

\* writer.close(): the footer, written at offset o after the rows; nothing
\* when the writer is closed already.
SameClosed(w, fs, o) ==
    LET at == PathOfInode(fs, w.ino)
    IN  IF w.closed \/ at = "none" THEN fs
        ELSE [fs EXCEPT ![at] =
                 [WrittenAt(@, o, <<>>) EXCEPT !.closed = o >= Len(fs[at].rows)]]

InitSame ==
    /\ InitRuns
    /\ raw[1] = raw[2]

\* One turn of "for frame in scanner.feed(...)" of run r.
SameHandleFrame(r) ==
    /\ pc[r] \in ScanPcs
    /\ \E n \in {ScanNext([buf |-> buf[LocalsOf(r)], inside |-> inside[LocalsOf(r)]],
                          chunk[r])} :
       \E d \in {_parse_frame(n.frame, schema_map[LocalsOf(r)])} :
       LET l == LocalsOf(r)
           num == NextPacketNum(packet_num[l], d.ok)
           b1 == Append(batch[l], row_from_data(ColumnSet(schema_file.schemas), num, d.data))
           w == SameWritten(writer[l], files[TheDataset], r, pass[r],
                            valid[l] - Len(batch[l]), b1)
       IN  /\ n.yielded
           /\ emitted' = [emitted EXCEPT ![r] = Append(@, n.frame)]
           /\ packet_num' = [packet_num EXCEPT ![l] = num]
           /\ \/ /\ d.raised
                 /\ exc' = [exc EXCEPT ![r] = "ValueError"]
                 /\ pc' = [pc EXCEPT ![r] = "except"]
                 /\ buf' = [buf EXCEPT ![l] = n.frame]
                 /\ inside' = [inside EXCEPT ![l] = TRUE]
                 /\ UNCHANGED <<chunk, batch, valid, writer, files>>
              \/ /\ ~d.raised
                 /\ ~d.ok
                 /\ buf' = [buf EXCEPT ![l] = n.buf]
                 /\ inside' = [inside EXCEPT ![l] = n.inside]
                 /\ chunk' = [chunk EXCEPT ![r] = n.rest]
                 /\ UNCHANGED <<pc, batch, valid, writer, files, exc>>
              \/ /\ d.ok
                 /\ Len(b1) < BatchSize
                 /\ buf' = [buf EXCEPT ![l] = n.buf]
                 /\ inside' = [inside EXCEPT ![l] = n.inside]
                 /\ chunk' = [chunk EXCEPT ![r] = n.rest]
                 /\ batch' = [batch EXCEPT ![l] = b1]
                 /\ valid' = [valid EXCEPT ![l] = @ + 1]
                 /\ UNCHANGED <<pc, writer, files, exc>>
              \/ /\ d.ok
                 /\ Len(b1) >= BatchSize
                 /\ buf' = [buf EXCEPT ![l] = n.buf]
                 /\ inside' = [inside EXCEPT ![l] = n.inside]
                 /\ chunk' = [chunk EXCEPT ![r] = n.rest]
                 /\ batch' = [batch EXCEPT ![l] = <<>>]
                 /\ valid' = [valid EXCEPT ![l] = @ + 1]
                 /\ writer' = [writer EXCEPT ![l] = w.writer]
                 /\ files' = [files EXCEPT ![TheDataset] = w.files]
                 /\ UNCHANGED <<pc, exc>>
    /\ UNCHANGED <<pos, schema_map, pass, job, dataset, runsFixed>>

\* "if batch:" the rows left are written.
SameFinalFlush(r) ==
    /\ pc[r] = "final_flush"
    /\ LET l == LocalsOf(r)
           w == SameWritten(writer[l], files[TheDataset], r, pass[r],
                            valid[l] - Len(batch[l]), batch[l])
       IN  IF HasRows(batch[l])
           THEN /\ writer' = [writer EXCEPT ![l] = w.writer]
                /\ files' = [files EXCEPT ![TheDataset] = w.files]
                /\ batch' = [batch EXCEPT ![l] = <<>>]
           ELSE UNCHANGED <<writer, files, batch>>
    /\ pc' = [pc EXCEPT ![r] = "close"]
    /\ UNCHANGED <<pos, buf, inside, emitted, schema_map, pass, chunk, packet_num,
                   valid, job, dataset, exc, runsFixed>>

\* "if writer:" writer.close(), and in the first body
\* os.replace(tmp_path, parquet_path), which raises FileNotFoundError when
\* nothing is at tmp_path.
SameClose(r) ==
    /\ pc[r] = "close"
    /\ LET l == LocalsOf(r)
           fs == SameClosed(writer[l], files[TheDataset], valid[l])
       IN  IF writer[l].path = "none"
           THEN /\ pc' = [pc EXCEPT ![r] = "update_meta"]
                /\ UNCHANGED <<writer, files, exc>>
           ELSE /\ writer' = [writer EXCEPT ![l].closed = TRUE]
                /\ IF pass[r] = 1 /\ fs.tmp = NoFile
                   THEN /\ files' = [files EXCEPT ![TheDataset] = fs]
                        /\ exc' = [exc EXCEPT ![r] = "FileNotFoundError"]
                        /\ pc' = [pc EXCEPT ![r] = "except"]
                   ELSE /\ files' = [files EXCEPT ![TheDataset] =
                                        IF pass[r] = 1
                                        THEN [tmp |-> NoFile, final |-> fs.tmp]
                                        ELSE fs]
                        /\ pc' = [pc EXCEPT ![r] = "update_meta"]
                        /\ UNCHANGED exc
    /\ UNCHANGED <<pos, buf, inside, emitted, schema_map, pass, chunk, batch,
                   packet_num, valid, job, dataset, runsFixed>>

\* d.parquet_path = parquet_path; d.packet_count = valid
SameUpdateMeta(r) ==
    /\ pc[r] = "update_meta"
    /\ dataset' = [dataset EXCEPT ![TheDataset] =
                      [parquet_path |-> "final", packet_count |-> valid[LocalsOf(r)]]]
    /\ pc' = [pc EXCEPT ![r] = "finish"]
    /\ UNCHANGED <<pos, buf, inside, emitted, schema_map, pass, chunk, batch,
                   packet_num, valid, writer, files, job, exc, runsFixed>>

\* "except Exception as e": set_status(failed, progress=100.0, message=str(e));
\* the first body then closes the writer and removes what is at tmp_path.
SameExcept(r) ==
    /\ pc[r] = "except"
    /\ job' = [job EXCEPT ![r] = set_status(@, "failed", Percent(100), exc[r])]
    /\ LET l == LocalsOf(r)
       IN  IF pass[r] = 1
           THEN /\ writer' = [writer EXCEPT ![l] =
                                 IF @.path = "none" THEN @ ELSE [@ EXCEPT !.closed = TRUE]]
                /\ files' = [files EXCEPT ![TheDataset] =
                                [(IF writer[l].path = "none" THEN @
                                  ELSE SameClosed(writer[l], @, valid[l]))
                                 EXCEPT !.tmp = NoFile]]
           ELSE UNCHANGED <<writer, files>>
    /\ pc' = [pc EXCEPT ![r] = "finally"]
    /\ UNCHANGED <<pos, buf, inside, emitted, schema_map, pass, chunk, batch,
                   packet_num, valid, dataset, exc, runsFixed>>

NextSame ==
    \E r \in Runs :
        \/ RunStart(r)
        \/ RunLoadSchema(r)
        \/ RunOpenRaw(r)
        \/ SameHandleFrame(r)
        \/ RunChunkDone(r)
        \/ RunReadChunk(r)
        \/ SameFinalFlush(r)
        \/ SameClose(r)
        \/ SameUpdateMeta(r)
        \/ RunFinish(r)
        \/ SameExcept(r)
        \/ RunFinally(r)

SpecSame == InitSame /\ [][NextSame]_vars

(***************************************************************************)
(* SpecDelete: one invocation of stream_to_parquet and DELETE requests for *)
(* its dataset.  mark is the status of the last answer of delete_dataset,  *)
(* 0 before the first: 400 when it refused, 200 when it deleted the        *)
(* Dataset row and removed the dataset's directory.  After that the raw    *)
(* file is gone, and open(raw_path) raises.                                *)
(***************************************************************************)
\* The Dataset row after db.delete(ds).
DeletedDataset == [parquet_path |-> None, packet_count |-> 0, deleted |-> TRUE]

\* DELETE /datasets/{id}: refused while a job of the dataset is pending or
\* running; otherwise the row is deleted and the directory removed.
delete_dataset ==
    /\ mark # 200
    /\ IF job.status \in {"pending", "running"}
       THEN /\ mark' = 400
            /\ UNCHANGED <<files, dataset>>
       ELSE /\ mark' = 200
            /\ dataset' = DeletedDataset
            /\ files' = [tmp |-> NoFile, final |-> NoFile]
    /\ UNCHANGED <<scanVars, decVars, pc, pass, chunk, batch, packet_num, valid,
                   writer, job, exc, faults, schema_file, bus, columns, published>>

\* with open(raw_path, "rb") in a directory that was removed.
OpenRawGone ==
    /\ pc = "open_raw"
    /\ mark = 200
    /\ exc' = "FileNotFoundError"
    /\ pc' = "except"
    /\ UNCHANGED <<scanVars, decVars, pass, chunk, batch, packet_num, valid, writer,
                   files, job, dataset, faults, auxVars, published>>

NextDelete ==
    \/ delete_dataset
    \/ Start
    \/ LoadSchema
    \/ (mark # 200 /\ OpenRaw)
    \/ OpenRawGone
    \/ HandleFrame
    \/ ChunkDone
    \/ ReadChunk
    \/ FinalFlush
    \/ CloseWriter
    \/ UpdateMeta
    \/ Finish
    \/ Except
    \/ Finally

SpecDelete == Init /\ [][NextDelete]_vars

(***************************************************************************)
(* SpecStartup: the application starts over the Job rows an earlier        *)
(* process left.  job is the table, a row for each job id.                 *)
(***************************************************************************)
MaxJobs == 3

\* The table before the start: every row as upload_dataset or a set_status
\* of stream_to_parquet wrote it last.
InitStartup ==
    /\ job \in [1 .. MaxJobs ->
                   {NewJob,
                    [status |-> "running", progress |-> Percent(0), message |-> "starting"],
                    [status |-> "running", progress |-> Percent(50), message |-> "parsing"],
                    [status |-> "success", progress |-> Percent(100), message |-> "completed"],
                    [status |-> "failed", progress |-> Percent(100), message |-> "ValueError"]}]
    /\ pc = "startup"
    /\ IdleScan
    /\ IdleDecode
    /\ IdleColumns
    /\ schema_map = <<>>
    /\ schema_file = NoSchemaFile
    /\ pass = 0  /\ chunk = <<>>  /\ batch = <<>>  /\ packet_num = 0  /\ valid = 0
    /\ writer = NoWriter
    /\ files = [tmp |-> NoFile, final |-> NoFile]
    /\ dataset = [parquet_path |-> None, packet_count |-> 0]
    /\ exc = "none"  /\ faults = 0
    /\ bus = FALSE  /\ published = <<>>
    /\ mark = 0

\* A start that leaves the table as it finds it.
StartupLeavesJobs ==
    /\ pc = "startup"
    /\ pc' = "serving"
    /\ UNCHANGED <<scanVars, decVars, pass, chunk, batch, packet_num, valid, writer,
                   files, job, dataset, exc, faults, auxVars, published>>

\* on_startup: the rows with status running get status failed and the message
\* "server restarted during processing", in one commit.
on_startup ==
    /\ pc = "startup"
    /\ job' = [j \in DOMAIN job |->
                  IF job[j].status = "running"
                  THEN [job[j] EXCEPT !.status = "failed",
                                      !.message = "server restarted during processing"]
                  ELSE job[j]]
    /\ pc' = "serving"
    /\ UNCHANGED <<scanVars, decVars, pass, chunk, batch, packet_num, valid, writer,
                   files, dataset, exc, faults, auxVars, published>>

NextStartup == on_startup

SpecStartup == InitStartup /\ [][NextStartup]_vars

(***************************************************************************)
(* SpecRow: one row built.  A frame is decoded under the schema map of one *)
(* schema list and, being ok, numbered and handed to row_from_data, whose  *)
(* cols are the columns of a schema list read on its own (the file is read *)
(* once for schema_map and once more by compute_all_columns).              *)
(***************************************************************************)
\* A schema with a field that bears the name of the sequence-number column.
SchemaN == Schema(6, 3, 7, <<Field("PacketNum", 1, <<>>)>>, <<>>)

RowSchemaLists == {<<SchemaA, SchemaW>>, <<SchemaP>>, <<SchemaN, SchemaA>>, SchemaFile}

\* Frames of the schemas above, their checksum fields filled in.
RowFrames ==
    {BuildFrame(START_FRAME, 2, 3, <<7>>, Checksum(<<7>>, 3), END_FRAME),
     BuildFrame(START_FRAME, 2, 3, <<0>>, Checksum(<<0>>, 3), END_FRAME),
     BuildFrame(START_FRAME, 3, 2, <<3, 2, 4>>, Checksum(<<3, 2, 4>>, 2), END_FRAME),
     BuildFrame(START_FRAME, 5, 2, <<7, 8>>, Checksum(<<7, 8>>, 2), END_FRAME),
     BuildFrame(START_FRAME, 6, 3, <<9>>, Checksum(<<9>>, 3), END_FRAME)}

InitRow ==
    /\ \E ss \in RowSchemaLists : schema_map = SchemaMap(ss)
    /\ schema_file \in {[readable |-> TRUE, schemas |-> ss] : ss \in RowSchemaLists}
    /\ frame \in RowFrames
    /\ result = _parse_frame(frame, schema_map)
    /\ result.ok
    /\ packet_num \in 0 .. MaxFrames
    /\ batch = <<>>
    /\ pc = "row"
    /\ IdleScan
    /\ pass = 0  /\ chunk = <<>>  /\ valid = 0  /\ writer = NoWriter
    /\ files = [tmp |-> NoFile, final |-> NoFile]
    /\ job = NewJob
    /\ dataset = [parquet_path |-> None, packet_count |-> 0]
    /\ exc = "none"  /\ faults = 0
    /\ bus = FALSE  /\ published = <<>>
    /\ mark = 0
    /\ IdleColumns

\* packet_num += 1; batch.append(row_from_data(data)); valid += 1
AppendRow ==
    /\ pc = "row"
    /\ packet_num' = NextPacketNum(packet_num, result.ok)
    /\ batch' = Append(batch, row_from_data(ColumnSet(schema_file.schemas),
                                            packet_num', result.data))
    /\ valid' = valid + 1
    /\ pc' = "row_done"
    /\ UNCHANGED <<scanVars, decVars, pass, chunk, writer, files, job, dataset,
                   exc, faults, auxVars, published>>

NextRow == AppendRow

SpecRow == InitRow /\ [][NextRow]_vars

(***************************************************************************)
(* Properties of the specification.                                        *)
(***************************************************************************)

\* C1 (SpecScan): whatever chunks the bytes read so far were fed in, empty
\* chunks included, the frames yielded so far are those that one feed() of the
\* same bytes to a fresh FrameScanner yields.
C1_ChunkTransparent ==
    pc \in {"feeding", "flushed"} =>
        emitted = Feed(NewScanner, SubSeq(raw, 1, pos)).frames

\* The whole stream is fed, and its last frame is longer than the chunk that
\* ended it: the frame was put together across a chunk boundary.
C1_FrameAcrossChunks ==
    /\ pc = "feeding"
    /\ pos = Len(raw)
    /\ emitted # <<>>
    /\ raw # <<>>
    /\ Last(raw) = END_FRAME
    /\ Len(chunk) >= 1
    /\ Len(chunk) < Len(Last(emitted))
    /\ Len(Last(emitted)) >= 3

\* C4 (SpecDecode): a frame with the markers, a known ID and the schema's
\* length and numbytes, whose checksum field is not
\* (sum of payload + numbytes) mod 65536, is rejected.
C4_BadChecksumRejected ==
    (pc = "decoded" /\ MatchesSchema(frame, schema_map) /\ ~ChecksumOk(frame))
        => ~result.ok

FieldNames(schema) == {schema.fields[j].name : j \in DOMAIN schema.fields}

Decodes(res, schema) ==
    /\ res.ok
    /\ ~res.raised
    /\ FieldNames(schema) \subseteq DOMAIN res.data

\* C5 as stated (SpecDecode): every frame with the markers, a known ID, the
\* schema's length and numbytes and the right checksum decodes, and the record
\* holds every declared field.
C5_ValidFrameDecodes ==
    (pc = "decoded" /\ MatchesSchema(frame, schema_map) /\ ChecksumOk(frame))
        => Decodes(result, schema_map[frame[2]])

\* The payload holds the declared fields.
HasRoom(f, smap) == SumSizes(smap[f[2]].fields) <= Len(PayloadOf(f))

\* C5 as amended (SpecDecode): such a frame decodes when its payload is at
\* least as long as the declared field sizes together.
C5_ValidFrameWithRoomDecodes ==
    (/\ pc = "decoded"
     /\ MatchesSchema(frame, schema_map)
     /\ ChecksumOk(frame)
     /\ HasRoom(frame, schema_map))
        => Decodes(result, schema_map[frame[2]])

\* A valid frame of the two-field schema has been decoded.
C5_TwoFieldFrameDecoded ==
    /\ pc = "decoded"
    /\ MatchesSchema(frame, schema_map)
    /\ ChecksumOk(frame)
    /\ HasRoom(frame, schema_map)
    /\ frame[2] = SchemaW.id
    /\ result.ok
    /\ {"F", "W", "f0", "f1", "ID"} \subseteq DOMAIN result.data

\* The cases in which the decoder is to answer ok = false.
MustReject(f, smap) ==
    \/ Len(f) < FrameOverhead
    \/ f[1] # START_FRAME
    \/ Last(f) # END_FRAME
    \/ f[2] \notin DOMAIN smap
    \/ smap[f[2]].length # Len(f)
    \/ smap[f[2]].num_bytes # f[3]
    \/ ~ChecksumOk(f)
    \/ ~HasRoom(f, smap)

\* C7 (SpecDecode): _parse_frame never raises, and answers ok = false for a
\* frame shorter than 6 bytes, a wrong marker, an unknown ID, a length or
\* numbytes mismatch, a checksum mismatch and a payload shorter than the
\* declared fields.
C7_DecoderNeverRaises ==
    pc = "decoded" =>
        /\ ~result.raised
        /\ MustReject(frame, schema_map) => ~result.ok

\* The running body has set up its scanner and counters, and no handler has
\* run yet.
BodyRunning ==
    \/ pc = "except" /\ exc \in {"ValueError", "IOError"}
    \/ /\ exc = "none"
       /\ pc \in ScanPcs \cup {"open_raw", "read_chunk", "final_flush", "close",
                               "update_meta", "finish", "finally", "returned"}

\* The rows the running body has written: those of the file its writer was
\* opened on, which the first body's rename moves to data.parquet.
BodyRows ==
    IF writer.path = "none" THEN <<>>
    ELSE IF pass = 1 /\ writer.closed THEN files.final.rows
    ELSE files[writer.path].rows

\* How many of the first n frames yielded the decoder accepted.
AcceptedUpTo(n) ==
    Cardinality({i \in 1 .. n : _parse_frame(emitted[i], schema_map).ok})

\* C2 (Spec): data.parquet is never opened for writing, and what is there is
\* never a partially written file.
C2_FinalPathNeverPartial ==
    /\ writer.path # "final"
    /\ files.final # NoFile => files.final.closed

\* C3 (Spec): when a body has raised after its writer was opened, then once
\* its handler has run the writer is closed, nothing is at data.parquet.tmp
\* and no file written by that body is at data.parquet.
C3_FailureLeavesNothing ==
    (pc = "finally" /\ exc # "none" /\ writer.path # "none") =>
        /\ writer.closed
        /\ files.tmp = NoFile
        /\ files.final.by # pass

\* C6 (Spec): no frame makes the run fail: with the well-formed schema file
\* and without a fault of the environment no exception is handled and the
\* invocation returns with status success.
C6_RejectNeverAborts ==
    (schema_file = StdSchemaFile /\ faults = 0) =>
        /\ pc # "except"
        /\ pc = "returned" => job.status = "success"

\* n frames 01 01 01 X chkHi chkLo 05 of the end-to-end scenario.
E2EStream(n) == Concat([i \in 1 .. n |-> SegE2E])

\* C8 (Spec): a stream of N frames of the end-to-end scenario leaves N rows
\* at data.parquet, with PacketNum 1..N in order, ID = 1 and X the input.
C8_EndToEnd ==
    \A n \in 1 .. MaxFrames :
        (/\ pc = "returned"
         /\ schema_file = StdSchemaFile
         /\ faults = 0
         /\ raw = E2EStream(n)) =>
            /\ files.final # NoFile
            /\ files.final.closed
            /\ Len(files.final.rows) = n
            /\ \A i \in 1 .. n :
                  /\ files.final.rows[i]["PacketNum"] = i
                  /\ files.final.rows[i]["ID"] = SchemaE.id
                  /\ files.final.rows[i]["X"] = PayloadOf(SegE2E)[1]

UnknownId(f) ==
    /\ Len(f) >= FrameOverhead
    /\ f[1] = START_FRAME
    /\ Last(f) = END_FRAME
    /\ f[2] \notin DOMAIN schema_map

ValidFrame(f) ==
    /\ MatchesSchema(f, schema_map)
    /\ ChecksumOk(f)
    /\ HasRoom(f, schema_map)

\* The step that handles a frame of an unknown ID changes neither the
\* counters, the batch nor the files; the loop goes on, with the scanner
\* outside a frame and its buffer empty.
UnknownIdStep ==
    (/\ pc \in ScanPcs
     /\ Len(emitted') = Len(emitted) + 1
     /\ UnknownId(Last(emitted')))
        => /\ valid' = valid
           /\ packet_num' = packet_num
           /\ batch' = batch
           /\ files' = files
           /\ pc' = pc
           /\ exc' = exc
           /\ buf' = <<>>
           /\ inside' = FALSE

\* Every valid frame yielded after a frame of an unknown ID has its row, in
\* the rows written or in the batch, at the place its count gives it.
LaterFramesKept ==
    BodyRunning =>
        \A i \in 1 .. Len(emitted) :
            UnknownId(emitted[i]) =>
                \A j \in (i + 1) .. Len(emitted) :
                    ValidFrame(emitted[j]) =>
                        LET k == AcceptedUpTo(j)
                            all == BodyRows \o batch
                            first == schema_map[emitted[j][2]].fields[1].name
                        IN  /\ k <= Len(all)
                            /\ all[k]["PacketNum"] = k
                            /\ all[k]["ID"] = emitted[j][2]
                            /\ all[k][first] = emitted[j][4]

\* A body that ends in success has scanned the whole stream and left no row in
\* the batch: its rows are the complete file at data.parquet.
ScannedToTheEnd ==
    (pc = "finally" /\ job.status = "success") =>
        /\ emitted = Feed(NewScanner, raw).frames
        /\ batch = <<>>
        /\ BodyRows # <<>> => (files.final.closed /\ files.final.rows = BodyRows)

\* C10 (Spec): a well-formed frame whose ID has no schema is rejected without
\* a change of valid or packet_num, scanning goes on after it, and the valid
\* frames that follow it are decoded and written.
C10_UnknownIdSkipped ==
    /\ [][UnknownIdStep]_vars
    /\ []LaterFramesKept
    /\ []ScannedToTheEnd

\* A body has ended in success after a frame of an unknown ID followed by a
\* valid frame, whose row is the last of the table.
C10_RowAfterUnknownId ==
    /\ pc = "finally"
    /\ job.status = "success"
    /\ Len(emitted) >= 2
    /\ UnknownId(emitted[Len(emitted) - 1])
    /\ ValidFrame(Last(emitted))
    /\ BodyRows # <<>>
    /\ Last(BodyRows)["X"] = Last(emitted)[4]
    /\ valid = Len(emitted) - 1

\* C11 (SpecDecode): a frame is accepted, and so yields a row, only if its
\* length is the length its schema declares and its numbytes byte is the
\* num_bytes its schema declares; a schema that declares length 0, or no
\* length or num_bytes at all, has no such frame.
C11_RowOnlyIfLengthAndNumBytesMatch ==
    (pc = "decoded" /\ result.ok) =>
        /\ frame[2] \in DOMAIN schema_map
        /\ schema_map[frame[2]].length = Len(frame)
        /\ schema_map[frame[2]].num_bytes = frame[3]

\* The names a schema list declares: fields, bit flags and all_fields.
DeclaredNames(schemas) ==
    {n \in {"PacketNum", "ID", "F", "W", "X", "Y", "Z", "f", "f0", "f1"} :
        \E k \in DOMAIN schemas :
            \/ \E a \in DOMAIN schemas[k].all_fields : schemas[k].all_fields[a] = n
            \/ \E j \in DOMAIN schemas[k].fields :
                  \/ schemas[k].fields[j].name = n
                  \/ \E b \in DOMAIN schemas[k].fields[j].bits :
                        schemas[k].fields[j].bits[b] = n}

Reversed(q) == [i \in 1 .. Len(q) |-> q[Len(q) + 1 - i]]

\* PacketNum, ID, then each other declared name once, in ascending order.
Canonical(c, schemas) ==
    /\ Len(c) >= 2
    /\ c[1] = "PacketNum"
    /\ c[2] = "ID"
    /\ {c[i] : i \in 3 .. Len(c)} = DeclaredNames(schemas) \ {"PacketNum", "ID"}
    /\ \A i, j \in 1 .. Len(c) : i < j => c[i] # c[j]
    /\ \A i, j \in 3 .. Len(c) : i < j => StrLess(c[i], c[j])

\* C12 (SpecColumns): every call of compute_all_columns returns PacketNum, ID
\* and then the declared names (fields, bit flags, all_fields) without
\* duplicates in ascending order; the schemas in reverse order give the same
\* sequence, and so does every repeated call.
C12_ColumnsCanonical ==
    \A i \in DOMAIN columns :
        /\ Canonical(columns[i], schema_file.schemas)
        /\ columns[i] = compute_all_columns(Reversed(schema_file.schemas))
        /\ columns[i] = columns[1]

\* compute_all_columns has been called twice on a list whose first schema
\* declares Y before X and all_fields names of its own, followed by the schema
\* with the bit flags.
C12_ColumnsOfUnorderedSchemas ==
    /\ pc = "columns"
    /\ Len(columns) >= 2
    /\ schema_file.schemas = <<SchemaP, SchemaW>>
    /\ columns[2] = <<"PacketNum", "ID", "F", "W", "X", "Y", "Z", "f", "f0", "f1">>

DuplicateIds(schemas) ==
    \E i, j \in DOMAIN schemas : i < j /\ schemas[i].id = schemas[j].id

MissingRequired(schemas) ==
    \E k \in DOMAIN schemas :
        \/ schemas[k].id = Absent
        \/ schemas[k].num_bytes = Absent
        \/ schemas[k].length = Absent

\* C13 (Spec): a schema source with two definitions of one ID, or with a
\* definition that lacks a required entry, produces no registry, and the body
\* that loads it does not go on to parse.
C13_MalformedSchemaFails ==
    (schema_file.readable
        /\ (DuplicateIds(schema_file.schemas) \/ MissingRequired(schema_file.schemas)))
        => /\ schema_map = <<>>
           /\ pc \notin ScanPcs \cup {"open_raw", "read_chunk", "final_flush", "close",
                                     "update_meta", "finish"}

BadSchemaSource ==
    \/ ~schema_file.readable
    \/ DuplicateIds(schema_file.schemas)
    \/ MissingRequired(schema_file.schemas)

\* How many status events report the status failed.
FailuresReported ==
    Cardinality({i \in DOMAIN published :
                    published[i].type = "status" /\ published[i].during = "failed"})

\* C14 (Spec): with a malformed or unreadable schema source no byte of the raw
\* source is read, no frame is yielded or decoded, no writer is opened and no
\* file is created; the failure is reported once: never twice, and once when
\* the invocation has returned (the bus delivering, no fault injected).
C14_SchemaErrorAbortsOnce ==
    BadSchemaSource =>
        /\ pos = 0
        /\ emitted = <<>>
        /\ writer = NoWriter
        /\ files.tmp = NoFile
        /\ files.final.by \notin {1, 2}
        /\ FailuresReported <= 1
        /\ (pc = "returned" /\ bus /\ faults = 0) => FailuresReported = 1

\* No frame of the raw source decodes under the schema source.
NoFrameDecodes ==
    LET frames == Feed(NewScanner, raw).frames
        registry == SchemaMap(schema_file.schemas)
    IN  \A i \in DOMAIN frames : ~_parse_frame(frames[i], registry).ok

\* The step that opens a writer is a flush of a batch that holds rows: a full
\* batch in the loop, or the rows left at the end.
WriterOpenedByFlush ==
    (writer.path = "none" /\ writer'.path # "none") =>
        \/ pc \in ScanPcs /\ Len(batch) + 1 >= BatchSize
        \/ pc = "final_flush" /\ batch # <<>>

\* A run in which no frame decodes opens no writer and creates no file: a
\* writer or a file of the run exists only if some frame decodes.
ZeroRowsNoFile ==
    (writer.path # "none" \/ files.tmp # NoFile \/ files.final.by \in {1, 2})
        => ~NoFrameDecodes

\* C15 (Spec): the writer is opened only by the first flush of a non-empty
\* batch; a run in which no frame decodes never opens a writer and creates no
\* file at data.parquet.tmp or data.parquet.
C15_WriterOpenedLazily ==
    /\ [][WriterOpenedByFlush]_vars
    /\ []ZeroRowsNoFile

\* The invocation has returned with status success after frames were yielded
\* and none of them decoded; there is no writer and no file of the run.
C15_ZeroRowRunReturned ==
    /\ pc = "returned"
    /\ job.status = "success"
    /\ emitted # <<>>
    /\ NoFrameDecodes
    /\ writer = NoWriter
    /\ files.tmp = NoFile
    /\ files.final.by \notin {1, 2}

\* flush() yields nothing and leaves the scanner outside a frame with an empty
\* buffer.
FlushStep ==
    (pc = "feeding" /\ pc' \in {"flushed", "reused"}) =>
        /\ emitted' = emitted
        /\ buf' = <<>>
        /\ inside' = FALSE

\* The frames yielded after a flush() are those of the bytes fed after it.
FramesAfterFlush ==
    pc = "reused" =>
        emitted = Feed(NewScanner, SubSeq(raw, 1, mark)).frames
                    \o Feed(NewScanner, SubSeq(raw, mark + 1, pos)).frames

\* C16 (SpecScan): flush() never yields a frame; it drops the partial frame
\* buffered and leaves the scanner not inside with an empty buffer, so that no
\* byte of the dropped frame is part of a frame yielded later.
C16_FlushDropsPartial ==
    /\ [][FlushStep]_vars
    /\ []FramesAfterFlush

\* flush() ran while a partial frame was buffered, and the bytes fed after it
\* ended with an END_FRAME byte.
C16_FedOnAfterDroppedPartial ==
    /\ pc = "reused"
    /\ Feed(NewScanner, SubSeq(raw, 1, mark)).inside
    /\ Len(Feed(NewScanner, SubSeq(raw, 1, mark)).buf) >= 2
    /\ pos = Len(raw)
    /\ pos > mark
    /\ Last(raw) = END_FRAME

\* The offset in the payload of field k.
OffsetOf(fields, k) == SumSizes(SubSeq(fields, 1, k - 1))

\* C17 (SpecDecode): for a one-byte field with bits, the record of an accepted
\* frame holds the byte under the field's name and, under the i-th name of the
\* bits list (from 0), bit i of the byte, which is 0 or 1.
C17_BitFlagsLsbFirst ==
    (pc = "decoded" /\ result.ok) =>
        LET fields == schema_map[frame[2]].fields
        IN  \A k \in DOMAIN fields :
                (fields[k].size = 1 /\ fields[k].bits # <<>>) =>
                    LET v == PayloadOf(frame)[OffsetOf(fields, k) + 1]
                    IN  /\ result.data[fields[k].name] = v
                        /\ \A i \in DOMAIN fields[k].bits :
                              /\ result.data[fields[k].bits[i]] = (v \div 2 ^ (i - 1)) % 2
                              /\ result.data[fields[k].bits[i]] \in {0, 1}

\* A frame of the schema with the flag byte has been decoded, its flag byte 1:
\* f0 is 1 and f1 is 0.
C17_FlagsOfOneDecoded ==
    /\ pc = "decoded"
    /\ result.ok
    /\ frame[2] = SchemaW.id
    /\ frame[4] = 1
    /\ result.data["F"] = 1
    /\ result.data["f0"] = 1
    /\ result.data["f1"] = 0

\* The unsigned integer whose big-endian bytes are b.
RECURSIVE BigEndian(_)
BigEndian(b) ==
    IF b = <<>> THEN 0
    ELSE Last(b) + 256 * BigEndian(SubSeq(b, 1, Len(b) - 1))

\* C18 (SpecDecode): the record of an accepted frame holds, for every field in
\* declared order, the value of the bytes at the offset the sizes before it
\* add up to; a field of n > 1 bytes is their big-endian unsigned integer, in
\* 0 .. 256^n - 1.
C18_FieldsBigEndianInOrder ==
    (pc = "decoded" /\ result.ok) =>
        LET fields == schema_map[frame[2]].fields
        IN  \A k \in DOMAIN fields :
                LET off == OffsetOf(fields, k)
                    bytes == SubSeq(PayloadOf(frame), off + 1, off + fields[k].size)
                IN  /\ result.data[fields[k].name] = BigEndian(bytes)
                    /\ result.data[fields[k].name] \in 0 .. (256 ^ fields[k].size - 1)

\* A frame of the schema with the two-byte field W has been decoded, its bytes
\* 01 00 after the flag byte: W is 256.
C18_TwoByteFieldDecoded ==
    /\ pc = "decoded"
    /\ result.ok
    /\ frame[2] = SchemaW.id
    /\ frame[5] = 1
    /\ frame[6] = 0
    /\ result.data["W"] = 256

\* C19 (Spec): a status update or an event that cannot be delivered never
\* aborts the parse: no body handles, and the invocation does not end with,
\* the exception of a set_status that failed.
C19_NotificationFailureNeverAborts ==
    /\ exc # "DBError"
    /\ pc # "raised"

\* C20 as stated (Spec): every progress reported while the status of the job
\* is running is at most 90, and 100 is reported only together with a
\* terminal status.
C20_ProgressCapped ==
    \A i \in DOMAIN published :
        LET e == published[i]
        IN  /\ (e.during = "running" /\ e.progress # Null) => e.progress <= Percent(90)
            /\ e.progress = Percent(100) =>
                  (e.type = "status" /\ e.during \in {"success", "failed"})

\* C20 as amended (Spec): every progress a status update reports with the
\* status running, and the progress of the Job row while its status is
\* running, is at most 90; a status update reports 100, and the Job row holds
\* 100, only with a terminal status; a log event published while the status is
\* running reports at most 95, but for the log of the failure (100).
C20_StatusProgressCapped ==
    /\ job.status = "running" => job.progress <= Percent(90)
    /\ job.progress = Percent(100) => job.status \in {"success", "failed"}
    /\ \A i \in DOMAIN published :
          LET e == published[i]
          IN  IF e.type = "status"
              THEN /\ (e.during = "running" /\ e.progress # Null) =>
                          e.progress <= Percent(90)
                   /\ e.progress = Percent(100) => e.during \in {"success", "failed"}
              ELSE (e.during = "running" /\ e.progress # Null) =>
                      \/ e.progress <= Percent(95)
                      \/ e.progress = Percent(100) /\ e.message = "failed"

\* The checkpoint after the last chunk has been reported: the whole file is
\* read, the ratio is 100 and the status event reports 90.
C20_CheckpointCapped ==
    /\ pc = "read_chunk"
    /\ pos = Len(raw)
    /\ raw # <<>>
    /\ Ratio(pos, Len(raw)) = Percent(100)
    /\ published # <<>>
    /\ Last(published).type = "status"
    /\ Last(published).during = "running"
    /\ Last(published).message = "parsing"
    /\ Last(published).progress = Percent(90)

\* The byte at index n of the stream ends a frame: it is END, and the marker
\* before it is a START that flush() has not dropped.
LastMarkerBefore(n) ==
    CHOOSE i \in 0 .. (n - 1) :
        /\ i > 0 => raw[i] \in {START_FRAME, END_FRAME}
        /\ \A k \in (i + 1) .. (n - 1) : raw[k] \notin {START_FRAME, END_FRAME}

EndsFrame(n) ==
    /\ raw[n] = END_FRAME
    /\ LastMarkerBefore(n) > 0
    /\ raw[LastMarkerBefore(n)] = START_FRAME
    /\ ~(pc \in {"flushed", "reused"} /\ LastMarkerBefore(n) <= mark /\ mark < n)

\* The frames of the first n bytes: each runs from the latest START to the
\* END that follows it.
RECURSIVE FramesFromLatestStart(_)
FramesFromLatestStart(n) ==
    IF n = 0 THEN <<>>
    ELSE FramesFromLatestStart(n - 1)
            \o (IF EndsFrame(n) THEN <<SubSeq(raw, LastMarkerBefore(n), n)>> ELSE <<>>)

\* A feed() of the one byte START to a scanner inside a frame yields nothing
\* and leaves the scanner inside a frame whose buffer is that byte.
ResyncStep ==
    (inside /\ pos' = pos + 1 /\ raw[pos + 1] = START_FRAME) =>
        /\ buf' = <<START_FRAME>>
        /\ inside'
        /\ emitted' = emitted

\* C25 (SpecScan): a START that arrives inside a frame abandons what is
\* buffered: the buffer becomes that one byte, the scanner stays inside, and
\* the bytes abandoned are in no frame, every frame yielded running from the
\* latest START before its END.
C25_ResyncAbandonsPartial ==
    /\ [][ResyncStep]_vars
    /\ [](emitted = FramesFromLatestStart(pos))

\* START, a data byte and START again have been fed, the last byte in a feed()
\* of its own: the buffer holds the second START alone.
C25_ResyncedOnSecondStart ==
    /\ pc = "feeding"
    /\ pos = 3
    /\ SubSeq(raw, 1, 3) = <<START_FRAME, 2, START_FRAME>>
    /\ Len(chunk) = 1
    /\ buf = <<START_FRAME>>
    /\ inside
    /\ emitted = <<>>

\* C26 (SpecScan): every frame yielded is at least two bytes long, begins with
\* START, ends with END and holds neither marker anywhere else.
C26_MarkersOnlyAtTheEnds ==
    \A k \in DOMAIN emitted :
        LET f == emitted[k]
        IN  /\ Len(f) >= 2
            /\ f[1] = START_FRAME
            /\ f[Len(f)] = END_FRAME
            /\ \A i \in 2 .. Len(f) : f[i] # START_FRAME
            /\ \A i \in 1 .. (Len(f) - 1) : f[i] # END_FRAME

\* A frame with a data byte has been yielded from a stream in which a START
\* arrived inside a frame.
C26_FrameAfterResync ==
    /\ emitted # <<>>
    /\ Len(Last(emitted)) >= 3
    /\ \E i \in 1 .. pos : \E j \in (i + 1) .. pos :
          /\ raw[i] = START_FRAME
          /\ raw[j] = START_FRAME
          /\ \A k \in (i + 1) .. (j - 1) : raw[k] \notin {START_FRAME, END_FRAME}

\* A feed() of bytes without START to a scanner outside a frame changes
\* nothing.
DiscardStep ==
    (/\ ~inside
     /\ pos' > pos
     /\ \A i \in (pos + 1) .. pos' : raw[i] # START_FRAME)
        => /\ buf' = buf
           /\ inside' = inside
           /\ emitted' = emitted

ScannerConsistent ==
    /\ inside <=> buf # <<>>
    /\ buf # <<>> => buf[1] = START_FRAME

\* C27 (SpecScan): after every feed() and flush() the scanner is inside a
\* frame exactly when its buffer is not empty, and a buffer that is not empty
\* begins with START; outside a frame the bytes other than START are
\* discarded and change nothing.
C27_InsideIffBuffered ==
    /\ []ScannerConsistent
    /\ [][DiscardStep]_vars

\* flush() has dropped a partial frame, and the bytes fed since, none of them
\* START, have been discarded.
C27_DiscardedAfterFlush ==
    /\ pc = "reused"
    /\ mark >= 1
    /\ pos > mark
    /\ raw[1] = START_FRAME
    /\ \A i \in 1 .. pos : raw[i] # END_FRAME
    /\ \A i \in (mark + 1) .. pos : raw[i] # START_FRAME
    /\ buf = <<>>
    /\ ~inside

\* While a body runs and no write has failed, the batch is below batch_size.
BatchBelowSize ==
    (BodyRunning /\ exc # "IOError") => Len(batch) < BatchSize

IsPrefix(a, b) == Len(a) <= Len(b) /\ SubSeq(b, 1, Len(a)) = a

\* A step of the loop or of the final flush keeps the rows written and
\* batched, in order, adds at most the row of the frame handled, and when it
\* writes it writes the whole batch.
FlushWritesOnce ==
    (pc \in ScanPcs \cup {"final_flush"}) =>
        /\ IsPrefix(BodyRows \o batch, BodyRows' \o batch')
        /\ Len(BodyRows' \o batch') <= Len(BodyRows \o batch) + 1
        /\ BodyRows' # BodyRows => batch' = <<>>

\* C28 (Spec): after a frame has been handled the batch holds fewer than
\* batch_size rows (a batch that reaches batch_size is written and emptied in
\* the same step, unless the write raises), and a flush writes every row
\* buffered once, in order.
C28_BatchFlushedWhenFull ==
    /\ []BatchBelowSize
    /\ [][FlushWritesOnce]_vars

\* A full batch has been written in the loop and the next row is batched.
C28_RowBatchedAfterFlush ==
    /\ pc \in ScanPcs
    /\ exc = "none"
    /\ Len(BodyRows) = BatchSize
    /\ Len(batch) = 1
    /\ batch[1]["PacketNum"] = BatchSize + 1

EndedInSuccess == pc \in {"returned", "raised"} /\ job.status = "success"

\* C29 (Spec): when the invocation has ended with status success, the table
\* at data.parquet, the counter valid and the packet_count of the dataset
\* agree: the table holds one row for each frame of the raw source that the
\* decoder accepts, in order, each once.
C29_RowCountsAgree ==
    EndedInSuccess =>
        /\ emitted = Feed(NewScanner, raw).frames
        /\ valid = AcceptedUpTo(Len(emitted))
        /\ dataset.packet_count = valid
        /\ valid > 0 =>
              /\ files.final.by \in {1, 2}
              /\ files.final.closed
              /\ Len(files.final.rows) = valid
              /\ \A i \in 1 .. valid : files.final.rows[i]["PacketNum"] = i
        /\ valid = 0 => files.final.by \notin {1, 2}

\* The invocation has returned in success with more rows than a batch holds:
\* a full batch and the rows of the final flush.
C29_FullAndPartialBatchCommitted ==
    /\ pc = "returned"
    /\ job.status = "success"
    /\ valid = BatchSize + 1
    /\ Len(files.final.rows) = BatchSize + 1
    /\ dataset.packet_count = BatchSize + 1

IsStart(e) == e.type = "status" /\ e.during = "running" /\ e.message = "starting"

IsTerminal(e) == e.type = "status" /\ e.during \in {"success", "failed"}

\* C30 (Spec): after a status event with a terminal status no status event
\* reports running; no more than one start and one terminal status event are
\* published, and one of each when the invocation has returned (the bus
\* delivering).
C30_TerminalIsFinal ==
    /\ \A i, j \in DOMAIN published :
          (i < j /\ IsTerminal(published[i])) =>
              ~(published[j].type = "status" /\ published[j].during = "running")
    /\ Cardinality({i \in DOMAIN published : IsStart(published[i])}) <= 1
    /\ Cardinality({i \in DOMAIN published : IsTerminal(published[i])}) <= 1
    /\ (pc = "returned" /\ bus) =>
          /\ Cardinality({i \in DOMAIN published : IsStart(published[i])}) = 1
          /\ Cardinality({i \in DOMAIN published : IsTerminal(published[i])}) = 1

\* The exceptions of the schema load and of the writer.
WholeRunErrors == {"OSError", "KeyError", "IOError"}

\* A body of the invocation has handled, and reported, a whole-run error.
ErrorHandled ==
    \/ exc \in WholeRunErrors
    \/ \E i \in DOMAIN published :
          /\ published[i].type = "status"
          /\ published[i].during = "failed"
          /\ published[i].message \in WholeRunErrors

\* C22 (Spec): when a body of the invocation has handled a whole-run error,
\* the invocation returns with status failed and an error as message, with
\* nothing at data.parquet.tmp and no unfinished file of the run at
\* data.parquet.
C22_WholeRunErrorFails ==
    (pc = "returned" /\ ErrorHandled) =>
        /\ job.status = "failed"
        /\ job.message \in WholeRunErrors \cup {"ValueError", "DBError"}
        /\ files.tmp = NoFile
        /\ files.final.by \in {1, 2} => files.final.closed

Ended == pc \in {"returned", "raised"}

HasTerminalStatus == job.status \in {"success", "failed"}

TokensOf(line) == split(strip(line))

\* A token that is no hex byte: a character that is no hex digit, or a value
\* above 0xFF.
BadToken(t) == (\E i \in 1 .. Len(t) : HexDigitValue(t[i]) = -1) \/ IntBase16(0, t) > 255

IsMalformed(line) == \E k \in 1 .. Len(TokensOf(line)) : BadToken(TokensOf(line)[k])

\* The bytes of the lines that parse, in order.
RECURSIVE WellFormedBytes(_)
WellFormedBytes(lines) ==
    IF lines = <<>> THEN <<>>
    ELSE (IF IsMalformed(Head(lines)) THEN <<>>
          ELSE [k \in 1 .. Len(TokensOf(Head(lines))) |->
                    IntBase16(0, TokensOf(Head(lines))[k])])
         \o WellFormedBytes(Tail(lines))

\* The lines feed_hex_bytes has been through: those of the header, then
\* those of the file from the end of the header on, less the ones to come.
HandledLines ==
    LET n == Min(HeaderBytes, Len(raw))
        all == splitlines(SubSeq(raw, 1, n)) \o splitlines(SubSeq(raw, n + 1, Len(raw)))
        left == splitlines(chunk) \o splitlines(SubSeq(raw, pos + 1, Len(raw)))
    IN  SubSeq(all, 1, Len(all) - Len(left))

\* The scanner and the frames are those of the bytes of the lines that parse,
\* and there is one warning for each line that does not.
OtherLinesProcessed ==
    pc \in HexPcs \cup {"hex_done"} =>
        LET r == Feed(NewScanner, WellFormedBytes(HandledLines))
        IN  /\ buf = r.buf
            /\ inside = r.inside
            /\ emitted = r.frames
            /\ bus => Len(published) =
                   Cardinality({k \in DOMAIN HandledLines : IsMalformed(HandledLines[k])})

\* A step over a malformed line leaves the scanner and the frames as they
\* are and publishes the warning.
MalformedLineStep ==
    (pc \in HexPcs /\ chunk # <<>> /\ IsMalformed(FirstLine(chunk))) =>
        /\ buf' = buf
        /\ inside' = inside
        /\ emitted' = emitted
        /\ chunk' = AfterFirstLine(chunk)
        /\ published' = IF bus THEN Append(published, MalformedWarning) ELSE published

RECURSIVE AloneRowsFrom(_, _)
AloneRowsFrom(frames, rows) ==
    IF frames = <<>> THEN [rows |-> rows, raised |-> FALSE]
    ELSE LET d == _parse_frame(Head(frames), SchemaMap(SchemaFile))
         IN  IF d.raised THEN [rows |-> rows, raised |-> TRUE]
             ELSE IF ~d.ok THEN AloneRowsFrom(Tail(frames), rows)
             ELSE AloneRowsFrom(Tail(frames),
                      Append(rows, row_from_data(ColumnSet(SchemaFile), Len(rows) + 1,
                                                 d.data)))

AloneRows(source) == AloneRowsFrom(Feed(NewScanner, source).frames, <<>>)

\* What one invocation alone leaves for a raw source: the file at
\* parquet_path, the Dataset row and the Job row.  A run that fails leaves at
\* parquet_path the full batches its second body wrote, not closed.
AloneOutcome(source) ==
    LET a == AloneRows(source)
        full == (Len(a.rows) \div BatchSize) * BatchSize
    IN  IF a.raised
        THEN [final |-> IF full = 0 THEN NoFile
                        ELSE [rows |-> SubSeq(a.rows, 1, full), closed |-> FALSE, by |-> 2],
              dataset |-> [parquet_path |-> None, packet_count |-> 0],
              job |-> [status |-> "failed", progress |-> Percent(100),
                       message |-> "ValueError"]]
        ELSE [final |-> IF a.rows = <<>> THEN NoFile
                        ELSE [rows |-> a.rows, closed |-> TRUE, by |-> 2],
              dataset |-> [parquet_path |-> "final", packet_count |-> Len(a.rows)],
              job |-> [status |-> "success", progress |-> Percent(100),
                       message |-> "completed"]]

\* The rows run r has written in the body it is in.
RowsWritten(r) ==
    IF writer[LocalsOf(r)].path = "none" THEN <<>>
    ELSE files[out_dir(r)][writer[LocalsOf(r)].path].rows

\* While run r scans, its scanner, its frames, its rows (written or in the
\* batch) and its count are those of the bytes it has scanned, whatever the
\* other run has done.
RunOnItsOwn(r) ==
    pc[r] \in ScanPcs \cup {"read_chunk"} =>
        LET l == LocalsOf(r)
            a == Feed(NewScanner, SubSeq(raw[r], 1, pos[r] - Len(chunk[r])))
            rows == AloneRowsFrom(a.frames, <<>>).rows
        IN  /\ buf[l] = a.buf
            /\ inside[l] = a.inside
            /\ emitted[r] = a.frames
            /\ RowsWritten(r) \o batch[l] = rows
            /\ valid[l] = Len(rows)
            /\ packet_num[l] = Len(rows)

\* C24 (SpecRuns): two runs for different datasets, their steps interleaved
\* in any order: each run's scanner, buffer, batch and writer hold only what
\* the run itself put there, and when a run has returned, the table at its
\* parquet_path, the row count of its dataset and its job status are those of
\* the same run executed alone.
C24_RunsIndependent ==
    DatasetOf(1) # DatasetOf(2) =>
        \A r \in Runs :
            /\ RunOnItsOwn(r)
            /\ pc[r] = "returned" =>
                   /\ files[out_dir(r)] = [tmp |-> NoFile,
                                           final |-> AloneOutcome(raw[r]).final]
                   /\ dataset[DatasetOf(r)] = AloneOutcome(raw[r]).dataset
                   /\ job[r] = AloneOutcome(raw[r]).job

\* Both runs are scanning, each with a writer open and rows in its file, and
\* the rows of the two differ.
C24_BothRunsWriting ==
    /\ pc[1] \in ScanPcs
    /\ pc[2] \in ScanPcs
    /\ RowsWritten(1) # <<>>
    /\ RowsWritten(2) # <<>>
    /\ RowsWritten(1) # RowsWritten(2)

\* The row just appended.
TheRow == batch[Len(batch)]

\* The keys of the row are the canonical columns, a decoded key that is a
\* column holds its value, and a column that is neither decoded nor PacketNum
\* is null; a decoded key that is no column is not in the row.
RowProjected ==
    pc = "row_done" =>
        LET cols == ColumnSet(schema_file.schemas)
        IN  /\ DOMAIN TheRow = cols
            /\ \A k \in DOMAIN result.data \cap cols : TheRow[k] = result.data[k]
            /\ \A c \in cols \ (DOMAIN result.data \cup {"PacketNum"}) : TheRow[c] = Null
            /\ TheRow["ID"] = frame[2]

\* C31 (SpecRow): every row appended to the batch has exactly the canonical
\* columns as its keys; PacketNum holds the sequence number and ID the packet
\* id, a decoded field that is a column holds its value, every other column
\* is null, and decoded keys that are no columns are dropped.
C31_RowHasCanonicalShape ==
    /\ RowProjected
    /\ pc = "row_done" => TheRow["PacketNum"] = packet_num

\* The scanner and the frames at the end of the text are those of the bytes
\* of the lines of the whole text that parse.
FedAsWholeText ==
    LET r == Feed(NewScanner, WellFormedBytes(splitlines(raw)))
    IN  /\ emitted = r.frames
        /\ buf = r.buf
        /\ inside = r.inside

\* The header ends where a line ends, or holds the whole text.
HeaderEndsWithLine ==
    \/ Len(raw) <= HeaderBytes
    \/ raw[HeaderBytes] = NL

\* C32 (SpecHex): in hex mode the bytes that reach the scanner are the
\* decoded tokens of the well-formed lines of the file, in order, wherever
\* the header read ends: a header that ends in the middle of a line or of a
\* token changes neither the bytes fed nor the frames emitted.
C32_HeaderCutInvisible == pc = "hex_done" => FedAsWholeText

\* The run has ended in success with parquet_path recorded on the dataset.
SucceededAndRecorded ==
    /\ pc = "returned"
    /\ job.status = "success"
    /\ dataset.parquet_path = "final"

\* At parquet_path is a closed file this run wrote, with a row for each frame
\* it counted.
OutputOfThisRun ==
    /\ files.final.closed
    /\ files.final.by \in {1, 2}
    /\ Len(files.final.rows) = valid

\* C33 (Spec): whenever a run ends in success and records parquet_path on the
\* dataset, a complete output file written by that run is at that path; a
\* successful run with no valid frame does not leave the dataset pointing at
\* a missing file or at a file of an earlier run.
C33_RecordedPathHasOutput == SucceededAndRecorded => OutputOfThisRun

\* Both runs have a writer open on one path.
WritersShareAPath ==
    /\ writer[1].path # "none"  /\ ~writer[1].closed
    /\ writer[2].path # "none"  /\ ~writer[2].closed
    /\ writer[1].path = writer[2].path

\* Both runs have returned and a file is at parquet_path: it is closed and
\* holds the rows one run alone makes of the raw file.
CommittedIsOneOutput ==
    (/\ pc[1] = "returned"  /\ pc[2] = "returned"
     /\ ~AloneRows(raw[TheDataset]).raised
     /\ files[TheDataset].final # NoFile) =>
        /\ files[TheDataset].final.closed
        /\ files[TheDataset].final.rows = AloneRows(raw[TheDataset]).rows

\* C34 (SpecSame): two parse jobs for one dataset that run concurrently never
\* have writers open on the same temporary or final path at the same time,
\* and the file committed in the end is the complete output of one run.
C34_SameDatasetRunsApart == ~WritersShareAPath /\ CommittedIsOneOutput

\* stream_to_parquet has more to do than its last db.close().
ParseExecuting == pc \notin {"returned", "raised"} /\ ~(pass = 2 /\ pc = "finally")

\* A step of delete_dataset that removes the directory.
DirectoryRemoved == mark # 200 /\ mark' = 200

\* A step of delete_dataset taken while the job is pending or running is a
\* refusal: the answer is 400 and the files and the Dataset row stay.
RefusedWhileJobActive ==
    (mark' # mark /\ job.status \in {"pending", "running"}) =>
        /\ mark' = 400
        /\ files' = files
        /\ dataset' = dataset

\* C35 (SpecDelete): delete_dataset never removes the directory of a dataset
\* while a parse of it is still executing, and refuses whenever a job of the
\* dataset is pending or running, however the request falls among the status
\* updates of stream_to_parquet.
C35_NoDeleteWhileParsing ==
    [][(DirectoryRemoved => ~ParseExecuting) /\ RefusedWhileJobActive]_vars

\* The start completes: a row that was running is failed with the restart
\* message and its progress as it was, and every other row is as it was.
StartupSweep ==
    (pc = "startup" /\ pc' = "serving") =>
        \A j \in DOMAIN job :
            IF job[j].status = "running"
            THEN /\ job'[j].status = "failed"
                 /\ job'[j].message = "server restarted during processing"
                 /\ job'[j].progress = job[j].progress
            ELSE job'[j] = job[j]

\* C36 (SpecStartup): once the application has started, no job left from
\* before the restart is running: every job found running is failed with the
\* message "server restarted during processing", and the jobs that were
\* pending, success or failed are as they were.
C36_NoRunningJobAfterStartup ==
    /\ [](pc = "serving" => \A j \in DOMAIN job : job[j].status # "running")
    /\ [][StartupSweep]_vars

\* The application has started over a table that held a running job, now
\* failed with the restart message, next to a pending and a finished one.
C36_SweptNextToPending ==
    /\ pc = "serving"
    /\ \E j \in DOMAIN job : /\ job[j].status = "failed"
                             /\ job[j].message = "server restarted during processing"
    /\ \E j \in DOMAIN job : job[j] = NewJob
    /\ \E j \in DOMAIN job : job[j].status = "success"

====
